---- MODULE Spec2Model ----
(***************************************************************************)
(* Tag-cache consistency hooks of ida-minsc (misc/hooks.py).               *)
(*                                                                         *)
(* The host (the disassembler) owns the comment text and the function      *)
(* layout; the hooks keep the reference counts of the tag cache in step    *)
(* with them.  Every handler is one atomic action: the host dispatches     *)
(* notifications synchronously on one thread.                              *)
(***************************************************************************)
EXTENDS Integers, Sequences, FiniteSets, TLC

(* ----------------------------- bounds ---------------------------------- *)
MaxAddr == 2
MaxEvents == 2
MaxFaults == 2

(* --------------------------- host layout ------------------------------- *)
Addr == 0 .. MaxAddr
IdentEA == MaxAddr + 1
EventAddr == Addr \cup {IdentEA}
XtrnAddr == {MaxAddr}
FuncStart == {1, MaxAddr}
RangeStart == FuncStart \ XtrnAddr
Keys == {"k1", "k2"}
\* tags held by host attributes instead of comment text
ImplicitKeys == {"__name__", "__color__", "__typeinfo__", "__extra_prefix__", "__extra_suffix__"}
TagKeys == Keys \cup ImplicitKeys
Text == {<< >>, <<"k1">>, <<"k2">>, <<"raw">>}
EmptyText == << >>

Max(a, b) == IF a >= b THEN a ELSE b

(* ------------------------------ tag codec ------------------------------ *)
\* a comment is a sequence of lines; a line that is not a tag makes the
\* whole text malformed, and malformed text decodes to the empty mapping
decode(text) ==
    IF \A i \in 1 .. Len(text) : text[i] \in Keys
    THEN {text[i] : i \in 1 .. Len(text)}
    ELSE {}

RECURSIVE encode(_)
encode(tags) ==
    IF tags = {} THEN << >>
    ELSE LET k == CHOOSE x \in tags : \A y \in tags : (x = y) \/ (x = "k1")
         IN <<k>> \o encode(tags \ {k})

check(text) == (\A i \in 1 .. Len(text) : text[i] \in Keys) /\ encode(decode(text)) = text

is_identifier(ea) == ea = IdentEA

(* ----------------------- reference-count ledger ------------------------ *)
ZeroCounts == [tags |-> [k \in TagKeys |-> 0], addrs |-> [a \in Addr |-> 0]]
ZeroLedger == [globals |-> ZeroCounts, contents |-> [f \in FuncStart |-> ZeroCounts]]

counts_inc(c, ea, key) ==
    [tags |-> [c.tags EXCEPT ![key] = @ + 1],
     addrs |-> [c.addrs EXCEPT ![ea] = @ + 1]]

\* a dec that does not stop at zero
counts_dec_unclamped(c, ea, key) ==
    [tags |-> [c.tags EXCEPT ![key] = @ - 1],
     addrs |-> [c.addrs EXCEPT ![ea] = @ - 1]]

counts_dec(c, ea, key) ==
    [tags |-> [c.tags EXCEPT ![key] = IF @ > 0 THEN @ - 1 ELSE 0],
     addrs |-> [c.addrs EXCEPT ![ea] = IF @ > 0 THEN @ - 1 ELSE 0]]

globals_inc(L, ea, key) == [L EXCEPT !.globals = counts_inc(@, ea, key)]
globals_dec(L, ea, key) == [L EXCEPT !.globals = counts_dec(@, ea, key)]
contents_inc(L, ea, key, target) == [L EXCEPT !.contents[target] = counts_inc(@, ea, key)]
contents_dec(L, ea, key, target) == [L EXCEPT !.contents[target] = counts_dec(@, ea, key)]

\* one cache call, named by what it does: g = globals, c = contents
cache_call(L, op, ea, key, target) ==
    CASE op = "ginc" -> globals_inc(L, ea, key)
      [] op = "gdec" -> globals_dec(L, ea, key)
      [] op = "cinc" -> contents_inc(L, ea, key, target)
      [] op = "cdec" -> contents_dec(L, ea, key, target)

\* "for key in keys: <op>(ea, key)"
RECURSIVE for_keys(_, _, _, _, _)
for_keys(L, op, ea, keys, target) ==
    IF keys = {} THEN L
    ELSE LET k == CHOOSE x \in keys : TRUE
         IN for_keys(cache_call(L, op, ea, k, target), op, ea, keys \ {k}, target)

(* ------------------------------ variables ------------------------------ *)
VARIABLES
    State,      \* database lifecycle: "None", "init", "loaded", "ready"
    astates,    \* address.__states__ : pending plain-comment edits by address
    gstates,    \* globals.__states__ : pending function-comment edits by address
    tagcache,   \* the reference counts (globals and per-function contents)
    disabled,   \* hook names currently disabled in the hook registry
    cmt,        \* host: comment text by address and repeatable flag
    fcmt,       \* host: function comment text by function and repeatable flag
    funcs,      \* host: the chunks of every function ({} when it does not exist)
    fattr,      \* host: the implicit tags (name, color, prototype) of every function
    tstates,    \* typeinfo.__states__ : pending type changes by address
    attr,       \* host: the name, type and extra comments of every address
    edit,       \* host: the comment edit announced by "changing" and not yet stored
    ev,         \* record of the handler that ran last (observation only)
    nev,        \* number of host edits and function creations so far
    nfault,     \* number of lost notifications and failed writes so far
    clean       \* every host edit so far was delivered in order to a ready database

vars == <<State, astates, gstates, tagcache, disabled, cmt, fcmt, funcs, fattr, tstates, attr,
          edit, ev, nev, nfault, clean>>

(* ------------------------- host function layout ------------------------ *)
NoFunc == IdentEA + 1
chunk_addrs(c) == c[1] .. (c[2] - 1)
func_addrs(fs, f) == UNION {chunk_addrs(c) : c \in fs[f]}
func_exists(fs, f) == fs[f] # {}
get_func(fs, ea) ==
    IF \E f \in FuncStart : ea \in func_addrs(fs, f)
    THEN CHOOSE f \in FuncStart : ea \in func_addrs(fs, f)
    ELSE NoFunc

\* tags of an address: both comments decoded and merged (the repeatable one
\* has priority when both define a key)
database_tag(C, ea) == decode(C[ea][FALSE]) \cup decode(C[ea][TRUE])
function_tag(FC, f) == decode(FC[f][FALSE]) \cup decode(FC[f][TRUE])

(* ------------------------- hook registry ------------------------------- *)
hook_disable(D, names) == D \cup names
hook_enable(D, names) == D \ names
CmtHooks == {"changing_cmt", "cmt_changed"}
RangeCmtHooks == {"changing_range_cmt", "range_cmt_changed"}

(* --------------------------- pending states ---------------------------- *)
\* status: "none" (no state), "fresh" (registered, nothing sent), "awaiting"
\* (waiting for "changed"), "dead" (the coroutine ended, still registered);
\* base, sound, forced and prev only record history: the ledger before the
\* "changing" that made the state, whether it was right for the address then,
\* whether that "changing" closed an awaiting state, and that state's base,
\* flag and old text
NoPrev == [base |-> ZeroLedger, rpt |-> FALSE, old |-> << >>]
NoState == [status |-> "none", ea |-> 0, rpt |-> FALSE, new |-> << >>, old |-> << >>,
            base |-> ZeroLedger, sound |-> FALSE, forced |-> FALSE, prev |-> NoPrev]
NoStates == [a \in Addr |-> NoState]

\* changingchanged.initialize
initialize(states) == NoStates

\* a handler that ended without unregistering leaves a finished coroutine
DeadState == [NoState EXCEPT !.status = "dead"]

\* typeinfo.__states__: a pending type change remembers whether the address
\* had a type when "changing_ti" arrived (original) and what was announced
\* (expected); base, after, forced and prev only record history: the ledger
\* before and after the "changing_ti" that made the state, whether it closed a
\* state, and that state's base, after and original
NoTypePrev == [base |-> ZeroLedger, after |-> ZeroLedger, original |-> FALSE]
NoType == [status |-> "none", original |-> FALSE, expected |-> FALSE,
           base |-> ZeroLedger, after |-> ZeroLedger, forced |-> FALSE, prev |-> NoTypePrev]
NoTypes == [a \in Addr |-> NoType]
typeinfo_initialize(states) == NoTypes

\* host attributes of an address: its name ("none", "label" for a generated
\* one, "custom"), whether it has type information, and whether the first
\* line of its anterior and posterior extra comments exists
NoAttr == [name |-> "none", type |-> FALSE, prefix |-> FALSE, suffix |-> FALSE]
NoAttrs == [a \in Addr |-> NoAttr]

\* a "changed" handler that forgets to close its event
event_close_forgotten(states, ea, raised) ==
    IF raised THEN [states EXCEPT ![ea] = DeadState] ELSE states

\* a close that forgets every pending state, not only the one of the address
event_close_every(states, ea, raised) ==
    [a \in DOMAIN states |-> IF raised /\ a = ea THEN DeadState ELSE NoState]

\* the end of a "changed" handler: event.close() makes the consumer pop its
\* state; when the updater raised, close() is never reached
event_close(states, ea, raised) ==
    [states EXCEPT ![ea] = IF raised THEN DeadState ELSE NoState]

(* ------------------ plain comments: class address ---------------------- *)
\* a get_func_extern for which no function is runtime-linked
get_func_extern_never_rt(fs, ea) == <<get_func(fs, ea), FALSE>>

\* returns <<f, rt>>
get_func_extern(fs, ea) ==
    LET f == get_func(fs, ea)
    IN <<f, IF f # NoFunc THEN ea \in XtrnAddr ELSE FALSE>>

in_contents(fs, ea) ==
    LET fr == get_func_extern(fs, ea) IN fr[1] # NoFunc /\ ~fr[2]

address_create_refs(L, fs, ea, content) ==
    LET fr == get_func_extern(fs, ea)
    IN for_keys(L, IF fr[1] # NoFunc /\ ~fr[2] THEN "cinc" ELSE "ginc", ea, content, fr[1])

address_delete_refs(L, fs, ea, content) ==
    LET fr == get_func_extern(fs, ea)
    IN for_keys(L, IF fr[1] # NoFunc /\ ~fr[2] THEN "cdec" ELSE "gdec", ea, content, fr[1])

\* _update_refs that forgets the keys that went away
update_refs_no_dec(L, fs, ea, old, new) == address_create_refs(L, fs, ea, new \ old)

address_update_refs(L, fs, ea, old, new) ==
    LET fr == get_func_extern(fs, ea)
        c == fr[1] # NoFunc /\ ~fr[2]
        sym == (old \ new) \cup (new \ old)
        L1 == for_keys(L, IF c THEN "cdec" ELSE "gdec", ea, {k \in sym : k \notin new}, fr[1])
    IN for_keys(L1, IF c THEN "cinc" ELSE "ginc", ea, {k \in sym : k \notin old}, fr[1])

\* a bracket that never re-enables
hooks_left_disabled(D) == D

\* the hook bracket of address.changing and address.changed
address_hooks_disable(D) == hook_disable(D, CmtHooks)
address_hooks_enable(D) == hook_enable(D, CmtHooks)

\* idaapi.set_cmt called from a handler while the hooks in D are disabled;
\* the call either stores the text or raises
set_cmt(C, D, hooks, ea, rpt, text, wfail) ==
    IF wfail
    THEN [C |-> C, writes |-> << >>, raised |-> TRUE]
    ELSE [C |-> [C EXCEPT ![ea][rpt] = text],
          writes |-> <<[ea |-> ea, rpt |-> rpt, text |-> text, prev |-> C[ea][rpt],
                        guarded |-> hooks \subseteq D]>>,
          raised |-> FALSE]

\* address.updater between its first and its second yield
address_updater_begin(L, fs, C, ea, rpt, new) ==
    LET old == C[ea][rpt]
    IN [L |-> address_update_refs(L, fs, ea, decode(old), decode(new)), old |-> old]

\* a close that undoes the updates of the changing phase
updater_close_undo(L, fs, p) == address_update_refs(L, fs, p.ea, decode(p.new), decode(p.old))

\* a close that commits the new keys once more
updater_close_commit(L, fs, p) == address_create_refs(L, fs, p.ea, decode(p.new))

\* address.updater when it is closed while waiting for cmt_changed
address_updater_close(L, fs, p) == L

\* address.updater after its second yield
address_updater_end(L, fs, C, D, p, newea, nrpt, wfail) ==
    LET o == decode(p.old)
        n == decode(p.new)
    IN IF <<newea, nrpt>> = <<p.ea, p.rpt>>
       THEN IF check(p.new) \/ p.new # EmptyText
            THEN LET w == set_cmt(C, D, CmtHooks, p.ea, p.rpt, p.new, wfail)
                 IN [L |-> L, mid |-> L, C |-> w.C, writes |-> w.writes, raised |-> w.raised,
                     path |-> "inorder"]
            ELSE [L |-> address_delete_refs(L, fs, p.ea, n), mid |-> L, C |-> C,
                  writes |-> << >>, raised |-> FALSE, path |-> "inorder"]
       ELSE LET L1 == address_delete_refs(L, fs, p.ea, o)
                w == set_cmt(C, D, CmtHooks, p.ea, p.rpt, EmptyText, wfail)
                new == w.C[newea][nrpt]
            IN IF w.raised
               THEN [L |-> L1, mid |-> L1, C |-> C, writes |-> << >>, raised |-> TRUE,
                     path |-> "mismatch"]
               ELSE [L |-> address_create_refs(L1, fs, newea, decode(new)), mid |-> L1,
                     C |-> w.C, writes |-> w.writes, raised |-> FALSE, path |-> "mismatch"]

\* the result of a handler that returns before doing anything
Ignored(states, L, D, C, why) ==
    [states |-> states, L |-> L, D |-> D, C |-> C, writes |-> << >>, raised |-> "none",
     path |-> why, closed |-> FALSE, mid |-> L, p |-> NoState]

\* address.changing
address_changing(states, L, D, C, fs, st, snd, ea, rpt, newcmt) ==
    IF st # "ready" THEN Ignored(states, L, D, C, "notready")
    ELSE IF is_identifier(ea) THEN Ignored(states, L, D, C, "identifier")
    ELSE LET q == states[ea]
             \* changingchanged.new: pop and close a state that is still there
             closed == q.status # "none"
             mid == IF q.status = "awaiting" THEN address_updater_close(L, fs, q) ELSE L
             D1 == address_hooks_disable(D)
             b == address_updater_begin(mid, fs, C, ea, rpt, newcmt)
             D2 == address_hooks_enable(D1)
             p == [status |-> "awaiting", ea |-> ea, rpt |-> rpt, new |-> newcmt, old |-> b.old,
                   base |-> L, sound |-> snd, forced |-> q.status = "awaiting",
                   prev |-> IF q.status = "awaiting"
                            THEN [base |-> q.base, rpt |-> q.rpt, old |-> q.old] ELSE NoPrev]
         IN [states |-> [states EXCEPT ![ea] = p], L |-> b.L, D |-> D2, C |-> C,
             writes |-> << >>, raised |-> "none", path |-> "ok", closed |-> closed,
             mid |-> mid, p |-> p]

\* address.changed
address_changed(states, L, D, C, fs, st, ea, rpt, wfail) ==
    IF st # "ready" THEN Ignored(states, L, D, C, "notready")
    ELSE IF is_identifier(ea) THEN Ignored(states, L, D, C, "identifier")
    ELSE LET q == states[ea]
             D1 == address_hooks_disable(D)
             e == address_updater_end(L, fs, C, D1, q, ea, rpt, wfail)
             D2 == address_hooks_enable(D1)
         IN CASE q.status = "none" ->
                    \* changingchanged.resume raises, nothing catches it
                    [Ignored(states, L, D, C, "notfound") EXCEPT !.raised = "AddressNotFoundError"]
              [] q.status = "dead" ->
                    \* send() to a finished coroutine: StopIteration, caught and logged
                    [Ignored(states, L, D2, C, "stopped") EXCEPT !.p = q]
              [] OTHER ->
                    [states |-> event_close(states, ea, e.raised),
                     L |-> e.L, D |-> D2, C |-> e.C, writes |-> e.writes,
                     raised |-> IF e.raised THEN "Exception" ELSE "none",
                     path |-> e.path, closed |-> FALSE, mid |-> e.mid, p |-> q]

(* ---------------- function comments: class globals --------------------- *)
globals_create_refs(L, fn, content) == for_keys(L, "ginc", fn, content, NoFunc)
globals_delete_refs(L, fn, content) == for_keys(L, "gdec", fn, content, NoFunc)

globals_update_refs(L, fn, old, new) ==
    LET sym == (old \ new) \cup (new \ old)
        L1 == for_keys(L, "gdec", fn, {k \in sym : k \notin new}, NoFunc)
    IN for_keys(L1, "ginc", fn, {k \in sym : k \notin old}, NoFunc)

\* the hook bracket of globals.changing and globals.changed
globals_hooks_disable(D) == hook_disable(D, RangeCmtHooks)
globals_hooks_enable(D) == hook_enable(D, RangeCmtHooks)

\* globals.updater between its first and its second yield
globals_updater_begin(L, fs, FC, ea, rpt, new) ==
    LET fn == get_func(fs, ea)
        old == FC[fn][rpt]
    IN [L |-> globals_update_refs(L, fn, decode(old), decode(new)), old |-> old]

\* globals.updater when it is closed while waiting for range_cmt_changed
globals_updater_close(L, fs, p) == L

\* globals.updater after its second yield
globals_updater_end(L, fs, FC, D, p, newea, nrpt, wfail) ==
    LET o == decode(p.old)
        n == decode(p.new)
        fn == p.ea
    IN IF <<newea, nrpt>> = <<p.ea, p.rpt>>
       THEN IF check(p.new) \/ p.new # EmptyText
            THEN LET w == set_cmt(FC, D, RangeCmtHooks, fn, p.rpt, p.new, wfail)
                 IN [L |-> L, mid |-> L, C |-> w.C, writes |-> w.writes, raised |-> w.raised,
                     path |-> "inorder"]
            ELSE [L |-> globals_delete_refs(L, fn, n), mid |-> L, C |-> FC,
                  writes |-> << >>, raised |-> FALSE, path |-> "inorder"]
       ELSE LET L1 == globals_delete_refs(L, fn, o)
                w == set_cmt(FC, D, RangeCmtHooks, fn, p.rpt, EmptyText, wfail)
                newfn == get_func(fs, newea)
                new == w.C[newfn][nrpt]
            IN IF w.raised
               THEN [L |-> L1, mid |-> L1, C |-> FC, writes |-> << >>, raised |-> TRUE,
                     path |-> "mismatch"]
               ELSE [L |-> globals_create_refs(L1, newfn, decode(new)), mid |-> L1,
                     C |-> w.C, writes |-> w.writes, raised |-> FALSE, path |-> "mismatch"]

\* globals.changing; s is the start of the range whose comment changes
globals_changing(states, L, D, FC, fs, st, snd, s, rpt, newcmt) ==
    IF st # "ready" THEN Ignored(states, L, D, FC, "notready")
    ELSE IF is_identifier(s) THEN Ignored(states, L, D, FC, "identifier")
    ELSE IF get_func(fs, s) = NoFunc /\ newcmt = EmptyText
         THEN Ignored(states, L, D, FC, "nofunc_empty")
    ELSE LET q == states[s]
             fn == get_func(fs, s)
             closed == q.status # "none"
             mid == IF q.status = "awaiting" THEN globals_updater_close(L, fs, q) ELSE L
             D1 == globals_hooks_disable(D)
             b == globals_updater_begin(mid, fs, FC, fn, rpt, newcmt)
             D2 == globals_hooks_enable(D1)
             fresh == [NoState EXCEPT !.status = "fresh", !.ea = s]
             p == [status |-> "awaiting", ea |-> fn, rpt |-> rpt, new |-> newcmt, old |-> b.old,
                   base |-> L, sound |-> snd, forced |-> q.status = "awaiting",
                   prev |-> IF q.status = "awaiting"
                            THEN [base |-> q.base, rpt |-> q.rpt, old |-> q.old] ELSE NoPrev]
         IN IF fn = NoFunc
            THEN \* the state is registered, then reading the start of no function raises
                 [states |-> [states EXCEPT ![s] = fresh], L |-> mid, D |-> D2, C |-> FC,
                  writes |-> << >>, raised |-> "Exception", path |-> "nofunc",
                  closed |-> closed, mid |-> mid, p |-> fresh]
            ELSE [states |-> [states EXCEPT ![s] = p], L |-> b.L, D |-> D2, C |-> FC,
                  writes |-> << >>, raised |-> "none", path |-> "ok", closed |-> closed,
                  mid |-> mid, p |-> p]

\* globals.changed; newcmt is the comment the host reports as stored
globals_changed(states, L, D, FC, fs, st, s, rpt, newcmt, wfail) ==
    IF st # "ready" THEN Ignored(states, L, D, FC, "notready")
    ELSE IF is_identifier(s) THEN Ignored(states, L, D, FC, "identifier")
    ELSE IF get_func(fs, s) = NoFunc /\ newcmt = EmptyText
         THEN Ignored(states, L, D, FC, "nofunc_empty")
    ELSE LET q == states[s]
             fn == get_func(fs, s)
             D1 == globals_hooks_disable(D)
             e == globals_updater_end(L, fs, FC, D1, q, fn, rpt, wfail)
             D2 == globals_hooks_enable(D1)
         IN CASE q.status = "none" ->
                    [Ignored(states, L, D, FC, "notfound") EXCEPT !.raised = "AddressNotFoundError"]
              [] q.status # "none" /\ fn = NoFunc ->
                    [Ignored(states, L, D2, FC, "nofunc") EXCEPT !.raised = "Exception", !.p = q]
              [] q.status = "dead" /\ fn # NoFunc ->
                    \* StopIteration is caught, but the message it logs formats
                    \* the name "ea", which globals.changed does not define
                    [Ignored(states, L, D2, FC, "stopped") EXCEPT !.raised = "NameError", !.p = q]
              [] q.status = "fresh" /\ fn # NoFunc ->
                    \* the coroutine takes the tuple for its first one (the comment
                    \* is None), and is then closed without being unregistered
                    [states |-> [states EXCEPT ![s] = DeadState],
                     L |-> globals_updater_begin(L, fs, FC, fn, rpt, EmptyText).L,
                     D |-> D2, C |-> FC, writes |-> << >>, raised |-> "none",
                     path |-> "fresh", closed |-> FALSE, mid |-> L, p |-> q]
              [] OTHER ->
                    [states |-> event_close(states, s, e.raised),
                     L |-> e.L, D |-> D2, C |-> e.C, writes |-> e.writes,
                     raised |-> IF e.raised THEN "Exception" ELSE "none",
                     path |-> e.path, closed |-> FALSE, mid |-> e.mid, p |-> q]

(* ------------------------ structural handlers -------------------------- *)
\* "for k in keys: <ops[1]>(ea, k); <ops[2]>(ea, k); ..."
RECURSIVE for_tags(_, _, _, _, _)
for_tags(L, ops, ea, keys, target) ==
    IF keys = {} THEN L
    ELSE LET k == CHOOSE x \in keys : TRUE
             L1 == IF Len(ops) >= 1 THEN cache_call(L, ops[1], ea, k, target) ELSE L
             L2 == IF Len(ops) >= 2 THEN cache_call(L1, ops[2], ea, k, target) ELSE L1
         IN for_tags(L2, ops, ea, keys \ {k}, target)

\* "for ea in addrs: for k in database.tag(ea): ..."
RECURSIVE for_addrs(_, _, _, _, _)
for_addrs(L, ops, C, addrs, target) ==
    IF addrs = {} THEN L
    ELSE LET ea == CHOOSE x \in addrs : TRUE
         IN for_addrs(for_tags(L, ops, ea, database_tag(C, ea), target), ops, C,
                      addrs \ {ea}, target)

\* add_func that forgets the globals side
add_func_contents_only(L, fs, C, pfn) == for_addrs(L, <<"cinc">>, C, func_addrs(fs, pfn), pfn)

\* add_func: fs already holds the new function pfn
add_func(L, fs, C, pfn) == for_addrs(L, <<"gdec", "cinc">>, C, func_addrs(fs, pfn), pfn)

\* function.chunk.owners(ea): every function that has the chunk at ea
chunk_owners(fs, ea) == {f \in FuncStart : ea \in func_addrs(fs, f)}

\* interface.range.end(pfn): the end of the entry chunk of the function
func_end(fs, f) == (CHOOSE c \in fs[f] : c[1] = f)[2]

\* function.tag(func): the tags of a function are the keys of its two
\* comments and its implicit tags; a runtime-linked (import) function keeps
\* its tags as the database tags of its address
function_tags(C, FC, FA, f) ==
    IF f \in XtrnAddr THEN database_tag(C, f) ELSE function_tag(FC, f) \cup FA[f]

\* del_func that leaves the tags of the function itself counted
del_func_keeps_own(L, fs, C, FC, FA, pfn) ==
    for_addrs(L, <<"cdec", "ginc">>, C, func_addrs(fs, pfn), pfn)

\* del_func: fs still holds the function pfn
del_func(L, fs, C, FC, FA, pfn) ==
    LET L1 == for_addrs(L, <<"cdec", "ginc">>, C, func_addrs(fs, pfn), pfn)
    IN for_keys(L1, "gdec", pfn, function_tags(C, FC, FA, pfn), pfn)

\* func_tail_appended that never takes the tags out of globals
tail_appended_contents_only(L, fs, C, pfn, tail) ==
    for_addrs(L, <<"cinc">>, C, chunk_addrs(tail), pfn)

\* func_tail_appended that always promotes, whatever the owners
tail_appended_always_promotes(L, fs, C, pfn, tail) ==
    for_addrs(L, <<"gdec", "cinc">>, C, chunk_addrs(tail), pfn)

\* func_tail_appended: fs already holds the tail as a chunk of pfn
func_tail_appended(L, fs, C, pfn, tail) ==
    IF Cardinality(chunk_owners(fs, tail[1])) > 1
    THEN for_addrs(L, <<"cinc">>, C, chunk_addrs(tail), pfn)
    ELSE for_addrs(L, <<"gdec", "cinc">>, C, chunk_addrs(tail), pfn)

\* removing_func_tail that never gives the tags back to globals
tail_removed_never_demotes(L, fs, C, pfn, tail) ==
    for_addrs(L, <<"cdec">>, C, chunk_addrs(tail), pfn)

\* removing_func_tail: fs still holds the tail as a chunk of pfn
removing_func_tail(L, fs, C, pfn, tail) ==
    IF Cardinality(chunk_owners(fs, tail[1])) > 1
    THEN for_addrs(L, <<"cdec">>, C, chunk_addrs(tail), pfn)
    ELSE for_addrs(L, <<"cdec", "ginc">>, C, chunk_addrs(tail), pfn)

\* set_func_start: pfn still starts at its old address
set_func_start(L, fs, C, pfn, new_start) ==
    IF pfn > new_start
    THEN for_addrs(L, <<"cdec", "ginc">>, C, new_start .. (pfn - 1), pfn)
    ELSE IF pfn < new_start
    THEN for_addrs(L, <<"gdec", "cinc">>, C, pfn .. (new_start - 1), pfn)
    ELSE L

\* set_func_end with the two directions exchanged
set_func_end_reversed(L, fs, C, pfn, new_end) ==
    IF new_end > func_end(fs, pfn)
    THEN for_addrs(L, <<"cdec", "ginc">>, C, func_end(fs, pfn) .. (new_end - 1), pfn)
    ELSE IF new_end < func_end(fs, pfn)
    THEN for_addrs(L, <<"gdec", "cinc">>, C, new_end .. (func_end(fs, pfn) - 1), pfn)
    ELSE L

\* set_func_end: pfn still ends at its old address
set_func_end(L, fs, C, pfn, new_end) ==
    IF new_end > func_end(fs, pfn)
    THEN for_addrs(L, <<"gdec", "cinc">>, C, func_end(fs, pfn) .. (new_end - 1), pfn)
    ELSE IF new_end < func_end(fs, pfn)
    THEN for_addrs(L, <<"cdec", "ginc">>, C, new_end .. (func_end(fs, pfn) - 1), pfn)
    ELSE L

(* ------------------------- database lifecycle -------------------------- *)
\* the inner loops of __process_functions for one function
RECURSIVE process_addrs(_, _, _, _, _, _)
process_addrs(L, C, addrs, gset, cset, fn) ==
    IF addrs = {} THEN L
    ELSE LET ea == CHOOSE x \in addrs : TRUE
             tags == database_tag(C, ea)
             L1 == IF ea \in gset THEN for_keys(L, "gdec", ea, tags, fn) ELSE L
             L2 == IF ea \notin cset THEN for_keys(L1, "cinc", ea, tags, fn) ELSE L1
         IN process_addrs(L2, C, addrs \ {ea}, gset, cset, fn)

RECURSIVE process_funcs(_, _, _, _, _)
process_funcs(L, fs, C, gset, todo) ==
    IF todo = {} THEN L
    ELSE LET fn == CHOOSE x \in todo : TRUE
             cset == {ea \in Addr : L.contents[fn].addrs[ea] > 0}
             L1 == IF fn \in XtrnAddr THEN L
                   ELSE process_addrs(L, C, func_addrs(fs, fn), gset, cset, fn)
         IN process_funcs(L1, fs, C, gset, todo \ {fn})

process_functions(L, fs, C) ==
    process_funcs(L, fs, C, {ea \in Addr : L.globals.addrs[ea] > 0},
                  {f \in FuncStart : func_exists(fs, f)})

\* an on_init that starts over from any state
on_init_again(st) == "init"

on_init(st) == IF st = "None" THEN "init" ELSE st
on_newfile(st) == IF st = "init" THEN "loaded" ELSE st
on_oldfile(st) == IF st = "init" THEN "ready" ELSE st
on_ready(st) == IF st = "loaded" THEN "ready" ELSE st

(* --------------------------- observation ------------------------------- *)
NoEdit == [kind |-> "none", ea |-> 0, rpt |-> FALSE, new |-> << >>]
\* pre: the ledger before the handler; mid: the ledger after the handler closed
\* a registered state ("changing") or discarded the updates of the changing
\* phase ("changed"); p: the pending state the handler made or consumed
NoEvent == [kind |-> "none", ea |-> 0, rpt |-> FALSE, path |-> "none", closed |-> FALSE,
            raised |-> "none", writes |-> << >>, pre |-> ZeroLedger, mid |-> ZeroLedger,
            p |-> NoState]
Observed(kind, ea, rpt, r, pre) ==
    [kind |-> kind, ea |-> ea, rpt |-> rpt, path |-> r.path, closed |-> r.closed,
     raised |-> r.raised, writes |-> r.writes, pre |-> pre, mid |-> r.mid, p |-> r.p]

(* ------------------- what the ledger should hold ---------------------- *)
\* the owner of the namespace an address is counted in: a function for
\* contents, NoFunc for globals
Owners == FuncStart \cup {NoFunc}
owner_of(fs, ea) == IF in_contents(fs, ea) THEN get_func(fs, ea) ELSE NoFunc
ns_tags(L, w) == IF w = NoFunc THEN L.globals.tags ELSE L.contents[w].tags

\* the number of addresses (and, for globals, functions) of a namespace whose
\* tags contain key k
carriers(fs, C, FC, w, k) ==
    Cardinality({a \in Addr : owner_of(fs, a) = w /\ k \in database_tag(C, a)})
    + (IF w = NoFunc
       THEN Cardinality({f \in FuncStart : func_exists(fs, f) /\ k \in function_tag(FC, f)})
       ELSE 0)

\* the ledger invariant: every count is the number of carriers of its key
LedgerOK(L, fs, C, FC) ==
    \A w \in Owners, k \in Keys : ns_tags(L, w)[k] = carriers(fs, C, FC, w, k)

\* one count after an edit from the tags old to the tags new
shifted(n, k, old, new) ==
    IF k \in old \ new THEN Max(0, n - 1)
    ELSE IF k \in new \ old THEN n + 1
    ELSE n

\* the counts of L2 are those of L1 with the keys of one edit shifted in the
\* namespace of owner w, and nothing else changed
Shifted(L1, L2, w, old, new) ==
    \A x \in Owners, k \in Keys :
        ns_tags(L2, x)[k] = IF x = w THEN shifted(ns_tags(L1, x)[k], k, old, new)
                            ELSE ns_tags(L1, x)[k]

SameCounts(L1, L2) == \A x \in Owners, k \in Keys : ns_tags(L2, x)[k] = ns_tags(L1, x)[k]

(* ------------------------------- actions -------------------------------- *)
Init ==
    /\ State = "None"
    /\ astates = NoStates
    /\ gstates = NoStates
    /\ tagcache = ZeroLedger
    /\ disabled = {}
    /\ cmt = [a \in Addr |-> [r \in BOOLEAN |-> EmptyText]]
    /\ fcmt = [f \in FuncStart |-> [r \in BOOLEAN |-> EmptyText]]
    /\ funcs = [f \in FuncStart |-> {}]
    /\ fattr = [f \in FuncStart |-> {}]
    /\ tstates = NoTypes
    /\ attr = NoAttrs
    /\ edit = NoEdit
    /\ ev = NoEvent
    /\ nev = 0
    /\ nfault = 0
    /\ clean = TRUE

\* ev_init: on_init, then database_init of both correlators
ev_init ==
    /\ edit.kind = "none"
    /\ State' = on_init(State)
    /\ astates' = initialize(astates)
    /\ gstates' = initialize(gstates)
    /\ tstates' = typeinfo_initialize(tstates)
    /\ ev' = [NoEvent EXCEPT !.kind = "ev_init"]
    /\ clean' = (clean /\ \A a \in Addr : astates[a].status = "none" /\ gstates[a].status = "none")
    /\ UNCHANGED <<attr, fattr, tagcache, disabled, cmt, fcmt, funcs, edit, nev, nfault>>

ev_newfile ==
    /\ edit.kind = "none"
    /\ State' = on_newfile(State)
    /\ ev' = [NoEvent EXCEPT !.kind = "ev_newfile"]
    /\ UNCHANGED <<tstates, attr, fattr, astates, gstates, tagcache, disabled, cmt, fcmt, funcs, edit, nev, nfault, clean>>

ev_oldfile ==
    /\ edit.kind = "none"
    /\ State' = on_oldfile(State)
    /\ ev' = [NoEvent EXCEPT !.kind = "ev_oldfile"]
    /\ UNCHANGED <<tstates, attr, fattr, astates, gstates, tagcache, disabled, cmt, fcmt, funcs, edit, nev, nfault, clean>>

ev_auto_queue_empty ==
    /\ edit.kind = "none"
    /\ State' = on_ready(State)
    /\ tagcache' = IF State = "loaded" THEN process_functions(tagcache, funcs, cmt) ELSE tagcache
    /\ ev' = [NoEvent EXCEPT !.kind = "on_ready", !.pre = tagcache]
    /\ UNCHANGED <<tstates, attr, fattr, astates, gstates, disabled, cmt, fcmt, funcs, edit, nev, nfault, clean>>

\* an edit the cache cannot follow: its announcement is lost, or the database
\* is not ready yet
Observable(deliver) == deliver /\ State = "ready"

\* the host announces a comment edit: changing_cmt
changing_cmt(ea, rpt, new, deliver) ==
    /\ edit.kind = "none"
    /\ nev < MaxEvents
    /\ Observable(deliver) \/ nfault < MaxFaults
    /\ nev' = nev + 1
    /\ nfault' = IF Observable(deliver) THEN nfault ELSE nfault + 1
    /\ edit' = [kind |-> "cmt", ea |-> ea, rpt |-> rpt, new |-> new]
    /\ clean' = (clean /\ deliver /\ State = "ready" /\ ea \in Addr)
    /\ IF deliver /\ "changing_cmt" \notin disabled
       THEN LET snd == LedgerOK(tagcache, funcs, cmt, fcmt)
                r == address_changing(astates, tagcache, disabled, cmt, funcs, State, snd,
                                      ea, rpt, new)
            IN /\ astates' = r.states
               /\ tagcache' = r.L
               /\ disabled' = r.D
               /\ ev' = Observed("changing", ea, rpt, r, tagcache)
       ELSE /\ ev' = NoEvent
            /\ UNCHANGED <<astates, tagcache, disabled>>
    /\ UNCHANGED <<tstates, attr, fattr, State, gstates, cmt, fcmt, funcs>>

\* the host stores the announced comment and reports it: cmt_changed
cmt_changed(deliver, wfail) ==
    /\ edit.kind = "cmt"
    /\ wfail => deliver
    /\ (~deliver \/ wfail) => nfault < MaxFaults
    /\ nfault' = IF deliver /\ ~wfail THEN nfault ELSE nfault + 1
    /\ edit' = NoEdit
    /\ LET stored == IF edit.ea \in Addr THEN [cmt EXCEPT ![edit.ea][edit.rpt] = edit.new] ELSE cmt
       IN IF deliver /\ "cmt_changed" \notin disabled
          THEN LET r == address_changed(astates, tagcache, disabled, stored, funcs, State,
                                        edit.ea, edit.rpt, wfail)
               IN /\ astates' = r.states
                  /\ tagcache' = r.L
                  /\ disabled' = r.D
                  /\ cmt' = r.C
                  /\ ev' = Observed("changed", edit.ea, edit.rpt, r, tagcache)
                  /\ clean' = (clean /\ r.raised = "none")
          ELSE /\ cmt' = stored
               /\ ev' = NoEvent
               /\ clean' = FALSE
               /\ UNCHANGED <<astates, tagcache, disabled>>
    /\ UNCHANGED <<tstates, attr, fattr, State, gstates, fcmt, funcs, nev>>

\* the host announces the edit of the comment of the range starting at s
changing_range_cmt(s, rpt, new, deliver) ==
    /\ edit.kind = "none"
    /\ nev < MaxEvents
    /\ Observable(deliver) \/ nfault < MaxFaults
    /\ nev' = nev + 1
    /\ nfault' = IF Observable(deliver) THEN nfault ELSE nfault + 1
    /\ edit' = [kind |-> "fcmt", ea |-> s, rpt |-> rpt, new |-> new]
    /\ clean' = (clean /\ deliver /\ State = "ready" /\ func_exists(funcs, s))
    /\ IF deliver /\ "changing_range_cmt" \notin disabled
       THEN LET snd == LedgerOK(tagcache, funcs, cmt, fcmt)
                r == globals_changing(gstates, tagcache, disabled, fcmt, funcs, State, snd,
                                      s, rpt, new)
            IN /\ gstates' = r.states
               /\ tagcache' = r.L
               /\ disabled' = r.D
               /\ ev' = Observed("fchanging", s, rpt, r, tagcache)
       ELSE /\ ev' = NoEvent
            /\ UNCHANGED <<gstates, tagcache, disabled>>
    /\ UNCHANGED <<tstates, attr, fattr, State, astates, cmt, fcmt, funcs>>

\* the host stores the announced range comment and reports it
range_cmt_changed(deliver, wfail) ==
    /\ edit.kind = "fcmt"
    /\ wfail => deliver
    /\ (~deliver \/ wfail) => nfault < MaxFaults
    /\ nfault' = IF deliver /\ ~wfail THEN nfault ELSE nfault + 1
    /\ edit' = NoEdit
    /\ LET stored == IF func_exists(funcs, edit.ea)
                     THEN [fcmt EXCEPT ![edit.ea][edit.rpt] = edit.new] ELSE fcmt
       IN IF deliver /\ "range_cmt_changed" \notin disabled
          THEN LET r == globals_changed(gstates, tagcache, disabled, stored, funcs, State,
                                        edit.ea, edit.rpt, edit.new, wfail)
               IN /\ gstates' = r.states
                  /\ tagcache' = r.L
                  /\ disabled' = r.D
                  /\ fcmt' = r.C
                  /\ ev' = Observed("fchanged", edit.ea, edit.rpt, r, tagcache)
                  /\ clean' = (clean /\ r.raised = "none")
          ELSE /\ fcmt' = stored
               /\ ev' = NoEvent
               /\ clean' = FALSE
               /\ UNCHANGED <<gstates, tagcache, disabled>>
    /\ UNCHANGED <<tstates, attr, fattr, State, astates, cmt, funcs, nev>>

\* the chunk sets a function can be created with
ChunkSets(f) ==
    IF f \in XtrnAddr THEN {{<<f, f + 1>>}}
    ELSE {{<<f, r>>} \cup tail : r \in (f + 1) .. MaxAddr, tail \in {{}, {<<0, 1>>}}}

\* the host creates function f and reports it: func_added
func_added(f, cs) ==
    /\ edit.kind = "none"
    /\ nev < MaxEvents
    /\ ~func_exists(funcs, f)
    /\ \A g \in FuncStart : func_addrs(funcs, g) \cap UNION {chunk_addrs(c) : c \in cs} = {}
    /\ nev' = nev + 1
    /\ funcs' = [funcs EXCEPT ![f] = cs]
    /\ tagcache' = add_func(tagcache, funcs', cmt, f)
    /\ ev' = [NoEvent EXCEPT !.kind = "add_func", !.ea = f, !.pre = tagcache]
    /\ UNCHANGED <<tstates, attr, fattr, State, astates, gstates, disabled, cmt, fcmt, edit, nfault, clean>>

Next ==
    \/ ev_init
    \/ ev_newfile
    \/ ev_oldfile
    \/ ev_auto_queue_empty
    \/ \E ea \in EventAddr, rpt \in BOOLEAN, new \in Text, deliver \in BOOLEAN :
          changing_cmt(ea, rpt, new, deliver)
    \/ \E deliver \in BOOLEAN, wfail \in BOOLEAN : cmt_changed(deliver, wfail)
    \/ \E s \in RangeStart, rpt \in BOOLEAN, new \in Text, deliver \in BOOLEAN :
          changing_range_cmt(s, rpt, new, deliver)
    \/ \E deliver \in BOOLEAN, wfail \in BOOLEAN : range_cmt_changed(deliver, wfail)
    \/ \E f \in FuncStart : \E cs \in ChunkSets(f) : func_added(f, cs)

Spec == Init /\ [][Next]_vars

(* ------------- second specification: the function layout -------------- *)
\* The structural handlers are exercised from every small starting layout:
\* comments, functions and their own tags are drawn at the start, and the
\* ledger starts either exact for that layout or empty (stale).
TailRanges == {<<0, 1>>, <<0, 2>>, <<MaxAddr, MaxAddr + 1>>}
FuncShapes(f) ==
    {{}} \cup {{<<f, e>>} \cup tails : e \in (f + 1) .. (MaxAddr + 1), tails \in SUBSET TailRanges}

\* chunks are equal or disjoint, and the entry chunk of a function belongs
\* to that function only
WellFormed(fs) ==
    /\ \A f \in FuncStart : fs[f] \in FuncShapes(f)
    /\ \A f, g \in FuncStart : \A c \in fs[f], d \in fs[g] :
          (c = d) \/ (chunk_addrs(c) \cap chunk_addrs(d) = {})
    /\ \A f, g \in FuncStart : (f # g) => \A c \in fs[f] \cap fs[g] : c[1] \notin {f, g}

Layouts == {fs \in [FuncStart -> UNION {FuncShapes(f) : f \in FuncStart}] : WellFormed(fs)}

\* the two comments of an address, and the comment and implicit tags of a function
AddrCmts == {<<EmptyText, EmptyText>>, <<<<"k1">>, EmptyText>>, <<<<"k1">>, <<"k2">>>>}
OwnTags == {<<EmptyText, {}>>, <<<<"k1">>, {"__name__"}>>}

\* the ledger that is exact for a layout: an address is counted in the
\* contents of every function that owns its chunk, in globals when no
\* function does; the tags of a function itself are counted in globals
exact_count(fs, C, FC, FA, w, k) ==
    IF w = NoFunc
    THEN Cardinality({a \in Addr : chunk_owners(fs, a) = {} /\ k \in database_tag(C, a)})
         + Cardinality({f \in FuncStart : func_exists(fs, f) /\ k \in function_tags(C, FC, FA, f)})
    ELSE Cardinality({a \in func_addrs(fs, w) : k \in database_tag(C, a)})

exact_addrs(fs, C, FC, FA, w, a) ==
    IF w = NoFunc
    THEN (IF chunk_owners(fs, a) = {} THEN Cardinality(database_tag(C, a)) ELSE 0)
         + (IF a \in FuncStart /\ func_exists(fs, a)
            THEN Cardinality(function_tags(C, FC, FA, a)) ELSE 0)
    ELSE IF a \in func_addrs(fs, w) THEN Cardinality(database_tag(C, a)) ELSE 0

exact_ledger(fs, C, FC, FA) ==
    [globals |-> [tags |-> [k \in TagKeys |-> exact_count(fs, C, FC, FA, NoFunc, k)],
                  addrs |-> [a \in Addr |-> exact_addrs(fs, C, FC, FA, NoFunc, a)]],
     contents |-> [f \in FuncStart |->
                     [tags |-> [k \in TagKeys |-> exact_count(fs, C, FC, FA, f, k)],
                      addrs |-> [a \in Addr |-> exact_addrs(fs, C, FC, FA, f, a)]]]]

LayoutExact(L, fs, C, FC, FA) ==
    \A w \in Owners, k \in TagKeys : ns_tags(L, w)[k] = exact_count(fs, C, FC, FA, w, k)

\* what a structural record keeps of the handler that ran before it
NoLast == [kind |-> "none", ea |-> 0, lo |-> 0, hi |-> 0, pre |-> ZeroLedger]
Last(e) ==
    IF e.kind \in {"del_func", "func_tail_appended", "removing_func_tail", "set_func_start",
                   "set_func_end"}
    THEN [kind |-> e.kind, ea |-> e.ea, lo |-> e.lo, hi |-> e.hi, pre |-> e.pre]
    ELSE NoLast

\* record of a structural handler: the function, the range it was given, the
\* tags of the function itself, the ledger and the layout it started from,
\* whether that ledger was exact for that layout, and the handler before it
Structural(kind, f, lo, hi, own, exact, pre, fs) ==
    [kind |-> kind, ea |-> f, lo |-> lo, hi |-> hi, own |-> own, exact |-> exact,
     pre |-> pre, fs |-> fs, last |-> Last(ev)]

LayoutInit ==
    /\ State = "ready"
    /\ astates = NoStates
    /\ gstates = NoStates
    /\ disabled = {}
    /\ \E ac \in [Addr -> AddrCmts] :
          cmt = [a \in Addr |-> [r \in BOOLEAN |-> IF r THEN ac[a][2] ELSE ac[a][1]]]
    /\ funcs \in Layouts
    /\ \E own \in [FuncStart -> OwnTags] :
          /\ fcmt = [f \in FuncStart |-> [r \in BOOLEAN |->
                        IF ~r /\ func_exists(funcs, f) THEN own[f][1] ELSE EmptyText]]
          /\ fattr = [f \in FuncStart |-> IF func_exists(funcs, f) THEN own[f][2] ELSE {}]
    /\ tagcache \in {exact_ledger(funcs, cmt, fcmt, fattr), ZeroLedger}
    /\ tstates = NoTypes
    /\ attr = NoAttrs
    /\ edit = NoEdit
    /\ ev = NoEvent
    /\ nev = 0
    /\ nfault = 0
    /\ clean = TRUE

\* what no structural handler touches
LayoutFrame ==
    UNCHANGED <<State, astates, gstates, tstates, attr, disabled, cmt, edit, nfault, clean>>

\* the host is about to delete function f: deleting_func
deleting_func(f) ==
    /\ nev < MaxEvents
    /\ func_exists(funcs, f)
    /\ nev' = nev + 1
    /\ tagcache' = del_func(tagcache, funcs, cmt, fcmt, fattr, f)
    /\ funcs' = [funcs EXCEPT ![f] = {}]
    /\ fcmt' = [fcmt EXCEPT ![f] = [r \in BOOLEAN |-> EmptyText]]
    /\ fattr' = [fattr EXCEPT ![f] = {}]
    /\ ev' = Structural("del_func", f, f, f, function_tags(cmt, fcmt, fattr, f),
                     LayoutExact(tagcache, funcs, cmt, fcmt, fattr), tagcache, funcs)
    /\ LayoutFrame

\* the host has appended the chunk tail to function f: func_tail_appended
tail_appended(f, tail) ==
    /\ nev < MaxEvents
    /\ func_exists(funcs, f)
    /\ tail \notin funcs[f]
    /\ nev' = nev + 1
    /\ funcs' = [funcs EXCEPT ![f] = @ \cup {tail}]
    /\ WellFormed(funcs')
    /\ tagcache' = func_tail_appended(tagcache, funcs', cmt, f, tail)
    /\ ev' = Structural("func_tail_appended", f, tail[1], tail[2], {},
                     LayoutExact(tagcache, funcs, cmt, fcmt, fattr), tagcache, funcs')
    /\ UNCHANGED <<fcmt, fattr>>
    /\ LayoutFrame

\* the host is about to remove the chunk tail from function f: deleting_func_tail
deleting_func_tail(f, tail) ==
    /\ nev < MaxEvents
    /\ tail \in funcs[f]
    /\ tail[1] # f
    /\ nev' = nev + 1
    /\ tagcache' = removing_func_tail(tagcache, funcs, cmt, f, tail)
    /\ funcs' = [funcs EXCEPT ![f] = @ \ {tail}]
    /\ ev' = Structural("removing_func_tail", f, tail[1], tail[2], {},
                     LayoutExact(tagcache, funcs, cmt, fcmt, fattr), tagcache, funcs)
    /\ UNCHANGED <<fcmt, fattr>>
    /\ LayoutFrame

\* the function f as the host keeps it once its entry chunk is <<start, end>>
moved_entry(fs, f, start, end) ==
    IF start = f THEN [fs EXCEPT ![f] = (@ \ {<<f, func_end(fs, f)>>}) \cup {<<start, end>>}]
    ELSE [fs EXCEPT ![f] = {},
                    ![start] = (fs[f] \ {<<f, func_end(fs, f)>>}) \cup {<<start, end>>}]

\* the host is about to move the start of function f: set_func_start
func_start_set(f, new_start) ==
    /\ nev < MaxEvents
    /\ func_exists(funcs, f)
    /\ new_start < func_end(funcs, f)
    /\ (new_start # f) => ~func_exists(funcs, new_start)
    /\ nev' = nev + 1
    /\ tagcache' = set_func_start(tagcache, funcs, cmt, f, new_start)
    /\ funcs' = moved_entry(funcs, f, new_start, func_end(funcs, f))
    /\ WellFormed(funcs')
    /\ fcmt' = IF new_start = f THEN fcmt
               ELSE [fcmt EXCEPT ![f] = [r \in BOOLEAN |-> EmptyText], ![new_start] = fcmt[f]]
    /\ fattr' = IF new_start = f THEN fattr ELSE [fattr EXCEPT ![f] = {}, ![new_start] = fattr[f]]
    /\ ev' = Structural("set_func_start", f, new_start, func_end(funcs, f), {},
                     LayoutExact(tagcache, funcs, cmt, fcmt, fattr), tagcache, funcs)
    /\ LayoutFrame

\* the host is about to move the end of function f: set_func_end
func_end_set(f, new_end) ==
    /\ nev < MaxEvents
    /\ func_exists(funcs, f)
    /\ nev' = nev + 1
    /\ tagcache' = set_func_end(tagcache, funcs, cmt, f, new_end)
    /\ funcs' = moved_entry(funcs, f, f, new_end)
    /\ WellFormed(funcs')
    /\ ev' = Structural("set_func_end", f, f, new_end, {},
                     LayoutExact(tagcache, funcs, cmt, fcmt, fattr), tagcache, funcs)
    /\ UNCHANGED <<fcmt, fattr>>
    /\ LayoutFrame

\* the host has created function f
layout_func_added(f, cs) ==
    /\ func_added(f, cs)
    /\ WellFormed(funcs')

LayoutNext ==
    \/ \E f \in FuncStart : \E cs \in ChunkSets(f) : layout_func_added(f, cs)
    \/ \E f \in FuncStart : deleting_func(f)
    \/ \E f \in FuncStart, tail \in TailRanges : tail_appended(f, tail)
    \/ \E f \in FuncStart, tail \in TailRanges : deleting_func_tail(f, tail)
    \/ \E f \in FuncStart, new_start \in FuncStart : func_start_set(f, new_start)
    \/ \E f \in FuncStart, new_end \in 1 .. (MaxAddr + 1) : func_end_set(f, new_end)

LayoutSpec == LayoutInit /\ [][LayoutNext]_vars

(* ========================== segment relocation ========================= *)
\* The relocation handlers work on the low-level store: the alt values of the
\* tagging node (address -> count) and one blob per function address.  Here
\* every address index is sparse, a set of <<address, count>> pairs, so that a
\* re-keyed address is never confined to Addr; any address may hold a blob and
\* any address may start a (one-address) function.
NoBlob == [tags |-> [k \in TagKeys |-> 0], addrs |-> {}]
alt_get(P, ea) == IF \E p \in P : p[1] = ea THEN (CHOOSE p \in P : p[1] = ea)[2] ELSE 0
alt_remove(P, ea) == {p \in P : p[1] # ea}
alt_set(P, ea, count) == alt_remove(P, ea) \cup {<<ea, count>>}
in_range(ea, base, size) == base <= ea /\ ea < base + size
database_functions(fs) == {a \in Addr : fs[a] # {}}

NoFault == <<"none", 0>>
FaultKinds == {"remove", "set", "read", "write"}

\* hooks.__relocate_globals, from item `a` of the sorted (address, count) items
RECURSIVE relocate_globals_from(_, _, _, _, _, _, _)
relocate_globals_from(S, old, new, size, items, fault, a) ==
    IF a > MaxAddr THEN S
    ELSE IF alt_get(items, a) = 0 THEN relocate_globals_from(S, old, new, size, items, fault, a + 1)
    ELSE LET count == alt_get(items, a)
             offset == a - old
             G1 == IF fault = <<"remove", a>> THEN S.globals.addrs
                   ELSE alt_remove(S.globals.addrs, a)
             G2 == IF fault = <<"set", a>> THEN G1 ELSE alt_set(G1, new + offset, count)
             S2 == [S EXCEPT !.globals.addrs = G2,
                             !.logged = IF fault[2] = a /\ fault[1] \in {"remove", "set"}
                                        THEN @ \cup {a} ELSE @]
         IN  relocate_globals_from(S2, old, new, size, items, fault, a + 1)

relocate_globals(S, old, new, size, items, fault) ==
    relocate_globals_from(S, old, new, size, items, fault, 0)

\* the re-keying of one blob: every address key shifts by new - old
rekey(state, old, new) ==
    [state EXCEPT !.addrs = {<<p[1] - old + new, p[2]>> : p \in @}]

\* the loop of hooks.__relocate_function over the sorted functions, from `a`;
\* S.index is the index of blobs found in the source range
RECURSIVE relocate_function_from(_, _, _, _, _, _, _, _)
relocate_function_from(S, old, new, size, fns, moved, fault, a) ==
    IF a > MaxAddr THEN S
    ELSE IF a \notin fns THEN relocate_function_from(S, old, new, size, fns, moved, fault, a + 1)
    ELSE LET offset == a - new
             source == offset + old
             target == offset + new
             notfound == fault = <<"read", a>>
             state == IF notfound THEN NoBlob
                      ELSE S.contents[IF moved THEN target ELSE source]
             C1 == [S.contents EXCEPT ![source] = NoBlob]
             ok == fault # <<"write", a>>
             C2 == IF ok THEN [C1 EXCEPT ![a] = rekey(state, old, new)] ELSE C1
             S2 == IF state = NoBlob
                   THEN [S EXCEPT !.logged = IF notfound THEN @ \cup {a} ELSE @]
                   ELSE [S EXCEPT !.contents = C2, !.index = @ \ {source},
                                  !.logged = IF ok THEN @ ELSE @ \cup {a}]
         IN  relocate_function_from(S2, old, new, size, fns, moved, fault, a + 1)

\* hooks.__relocate_function: the loop, then the blobs of runtime-linked
\* addresses and the strays left in the index are erased, except a stray whose
\* target is the start of a function
relocate_function(S, fs, old, new, size, fns, moved, fault) ==
    LET index == {ea \in Addr : in_range(ea, old, size) /\ S.contents[ea] # NoBlob}
        S1 == relocate_function_from([S EXCEPT !.index = index], old, new, size, fns,
                                     moved, fault, 0)
        linked == {ea \in S1.index : (ea - old + new) \in XtrnAddr}
        strays == {ea \in S1.index \ linked : fs[ea - old + new] = {}}
    IN  [S1 EXCEPT !.contents = [ea \in Addr |-> IF ea \in linked \cup strays THEN NoBlob
                                                 ELSE @[ea]],
                   !.index = {}]

\* hooks.relocate: the functions and the globals are listed once, then every
\* segment of the request is processed in turn
RECURSIVE relocate_segments(_, _, _, _, _, _, _)
relocate_segments(S, fs, globals, info, moved, fault, si) ==
    IF si > Len(info) THEN S
    ELSE LET seg == info[si]
             listable == {ea \in database_functions(fs) : in_range(ea, seg.to, seg.size)}
             S1 == relocate_function(S, fs, seg.from, seg.to, seg.size, listable, moved, fault)
             items == {p \in globals : in_range(p[1], seg.from, seg.size)}
             S2 == relocate_globals(S1, seg.from, seg.to, seg.size, items, fault)
         IN  relocate_segments(S2, fs, globals, info, moved, fault, si + 1)

relocate(S, fs, info, moved, fault) ==
    relocate_segments(S, fs, S.globals.addrs, info, moved, fault, 1)

\* a segm_moved that relocates every global entry, wherever it lies
segm_moved_unfiltered(S, fs, source, destination, size, changed_netmap, fault) ==
    LET functions == {ea \in database_functions(fs) : in_range(ea, destination, size)}
        S1 == relocate_function(S, fs, source, destination, size, functions,
                                ~changed_netmap, fault)
    IN  relocate_globals(S1, source, destination, size, S.globals.addrs, fault)

\* hooks.segm_moved: one segment; the blobs have moved unless the netnode map changed
segm_moved(S, fs, source, destination, size, changed_netmap, fault) ==
    LET functions == {ea \in database_functions(fs) : in_range(ea, destination, size)}
        globals == {p \in S.globals.addrs : in_range(p[1], source, size)}
        S1 == relocate_function(S, fs, source, destination, size, functions,
                                ~changed_netmap, fault)
    IN  relocate_globals(S1, source, destination, size, globals, fault)

(* ------------------- the host side of a relocation --------------------- *)
Segments ==
    {s \in [from : Addr, to : Addr, size : 1 .. MaxAddr] :
        s.from # s.to /\ s.from + s.size <= MaxAddr + 1 /\ s.to + s.size <= MaxAddr + 1}
seg_source(s) == s.from .. (s.from + s.size - 1)
seg_target(s) == s.to .. (s.to + s.size - 1)
\* requests of one or two segments, no two sharing a source or a target address
Requests ==
    {<<s>> : s \in Segments} \cup
    {<<p[1], p[2]>> : p \in {q \in Segments \X Segments :
                                /\ seg_source(q[1]) \cap seg_source(q[2]) = {}
                                /\ seg_target(q[1]) \cap seg_target(q[2]) = {}}}
sources(info) == UNION {seg_source(info[i]) : i \in 1 .. Len(info)}
targets(info) == UNION {seg_target(info[i]) : i \in 1 .. Len(info)}
\* where the content now at address x was before the move; -1 where the move
\* left nothing
moved_from(info, x) ==
    IF x \in targets(info)
    THEN LET s == info[CHOOSE i \in 1 .. Len(info) : x \in seg_target(info[i])]
         IN  x - s.to + s.from
    ELSE IF x \in sources(info) THEN -1 ELSE x
\* where the content at address x is after the move
moved_to(info, x) ==
    IF x \in sources(info)
    THEN LET s == info[CHOOSE i \in 1 .. Len(info) : x \in seg_source(info[i])]
         IN  x - s.from + s.to
    ELSE x
host_layout(fs, info) ==
    [x \in Addr |-> IF moved_from(info, x) = -1 THEN {}
                    ELSE IF fs[moved_from(info, x)] = {} THEN {} ELSE {<<x, x + 1>>}]
\* a host that moves the blobs itself, their address keys untouched
host_blobs(C, info) ==
    [x \in Addr |-> IF moved_from(info, x) = -1 THEN NoBlob ELSE C[moved_from(info, x)]]
reversed(info) == [i \in 1 .. Len(info) |->
                     [from |-> info[i].to, to |-> info[i].from, size |-> info[i].size]]

\* what every address holds at first: nothing, a global entry, a function
\* with its blob, a function without one, a blob without a function, or a
\* function with its blob and a global entry
Holdings == 0 .. 5
RelocInit ==
    /\ State = "ready"
    /\ astates = NoStates
    /\ gstates = NoStates
    /\ disabled = {}
    /\ cmt = [a \in Addr |-> [r \in BOOLEAN |-> EmptyText]]
    /\ fcmt = [f \in FuncStart |-> [r \in BOOLEAN |-> EmptyText]]
    /\ fattr = [f \in FuncStart |-> {}]
    /\ \E h \in [Addr -> Holdings] :
          /\ funcs = [a \in Addr |-> IF h[a] \in {2, 3, 5} THEN {<<a, a + 1>>} ELSE {}]
          /\ tagcache =
                [globals |-> [tags |-> [k \in TagKeys |-> 0],
                              addrs |-> {<<a, a + 1>> : a \in {x \in Addr : h[x] \in {1, 5}}}],
                 contents |-> [a \in Addr |->
                                 IF h[a] \in {2, 4, 5}
                                 THEN [tags |-> [k \in TagKeys |-> IF k = "k1" THEN a + 1 ELSE 0],
                                       addrs |-> {<<a, a + 1>>}]
                                 ELSE NoBlob]]
    /\ tstates = NoTypes
    /\ attr = NoAttrs
    /\ edit = NoEdit
    /\ ev = NoEvent
    /\ nev = 0
    /\ nfault = 0
    /\ clean = TRUE

RelocFrame ==
    UNCHANGED <<State, astates, gstates, tstates, attr, disabled, cmt, fcmt, fattr, edit, clean>>

\* the store after the host has moved the segments of `info` and the handler
\* ("relocate" or "segm_moved") has run on ledger L and function table fs
handled(handler, L, fs, info, moved, fault) ==
    LET S0 == [globals |-> L.globals,
               contents |-> IF moved THEN host_blobs(L.contents, info) ELSE L.contents,
               index |-> {}, logged |-> {}]
    IN  IF handler = "relocate" THEN relocate(S0, host_layout(fs, info), info, moved, fault)
        ELSE segm_moved(S0, host_layout(fs, info), info[1].from, info[1].to, info[1].size,
                        ~moved, fault)

\* the host has moved the segments of `info`; a fault is one that strikes, that
\* is, the failing store operation is attempted; `first` is the ledger before
\* the first relocation of a round trip
Relocation(handler, info, moved, fault, back, first) ==
    /\ nev < MaxEvents
    /\ \A x \in targets(info) \ sources(info) : funcs[x] = {}
    /\ LET S1 == handled(handler, tagcache, funcs, info, moved, fault)
       IN  /\ fault = NoFault \/ (nfault < MaxFaults /\ fault[2] \in S1.logged)
           /\ funcs' = host_layout(funcs, info)
           /\ tagcache' = [globals |-> S1.globals, contents |-> S1.contents]
           /\ ev' = [kind |-> handler, info |-> info, moved |-> moved, fault |-> fault,
                     back |-> back, pre |-> tagcache, fs |-> funcs, first |-> first,
                     logged |-> S1.logged]
    /\ nev' = nev + 1
    /\ nfault' = IF fault = NoFault THEN nfault ELSE nfault + 1
    /\ RelocFrame

allsegs_moved(info, moved, fault) ==
    ev.kind = "none" /\ Relocation("relocate", info, moved, fault, FALSE, tagcache)
segment_moved(seg, changed_netmap, fault) ==
    ev.kind = "none" /\ Relocation("segm_moved", <<seg>>, ~changed_netmap, fault, FALSE, tagcache)
\* the same segments are moved back to where they were
allsegs_moved_back(moved) ==
    /\ ev.kind = "relocate" /\ ~ev.back /\ ev.fault = NoFault
    /\ Relocation("relocate", reversed(ev.info), moved, NoFault, TRUE, ev.pre)
segment_moved_back(changed_netmap) ==
    /\ ev.kind = "segm_moved" /\ ~ev.back /\ ev.fault = NoFault
    /\ Relocation("segm_moved", reversed(ev.info), ~changed_netmap, NoFault, TRUE, ev.pre)

Faults == {NoFault} \cup (FaultKinds \X Addr)
RelocNext ==
    \/ \E info \in Requests, moved \in BOOLEAN, fault \in Faults :
          allsegs_moved(info, moved, fault)
    \/ \E seg \in Segments, changed_netmap \in BOOLEAN, fault \in Faults :
          segment_moved(seg, changed_netmap, fault)
    \/ \E moved \in BOOLEAN : allsegs_moved_back(moved)
    \/ \E changed_netmap \in BOOLEAN : segment_moved_back(changed_netmap)

RelocSpec == RelocInit /\ [][RelocNext]_vars

(* ======================= the claims, C1 to C10 ========================= *)
\* a delivered cmt_changed step, seen from the state before it
Finalize ==
    /\ edit.kind = "cmt" /\ edit'.kind = "none"
    /\ ev'.kind = "changed" /\ ev'.path \notin {"notready", "identifier"}

\* the step before was the delivered changing_cmt of the edit in flight
Announced == ev.kind = "changing" /\ ev.path = "ok" /\ edit.kind = "cmt"

ImportFunction == \E f \in XtrnAddr \cap FuncStart : func_exists(funcs, f)

\* C1: after every committed edit (every host edit so far was delivered in
\* order to a ready database and no handler raised), every ledger count
\* equals the number of addresses of its namespace whose merged tags
\* contain the key
C1_LedgerInvariant ==
    (clean /\ edit.kind = "none" /\ ~ImportFunction) => LedgerOK(tagcache, funcs, cmt, fcmt)

\* C2: a delivered "changing" decrements every key only in the old comment
\* once, increments every key only in the new comment once and touches no
\* other count; the in-order "changed" makes no further ledger change
C2_InOrderPair ==
    /\ (ev.kind = "changing" /\ ev.path = "ok") =>
            Shifted(ev.pre, tagcache, owner_of(funcs, ev.ea),
                    decode(cmt[ev.ea][ev.rpt]), decode(edit.new))
    /\ (ev.kind = "fchanging" /\ ev.path = "ok") =>
            Shifted(ev.pre, tagcache, NoFunc,
                    decode(fcmt[get_func(funcs, ev.ea)][ev.rpt]), decode(edit.new))
    /\ (ev.kind \in {"changed", "fchanged"} /\ ev.path = "inorder") => tagcache = ev.pre

C2_Witness ==
    /\ ev.kind = "changed" /\ ev.path = "inorder" /\ ev.raised = "none"
    /\ ev.p.old = EmptyText /\ ev.p.new = <<"k1">> /\ ev.p.base = ZeroLedger
    /\ owner_of(funcs, ev.ea) = NoFunc
    /\ tagcache.globals.tags["k1"] = 1

\* C3 as the specification states it: after the "changed" that follows a
\* second "changing", every count is what one changing/changed pair with the
\* second value, applied to the comment stored before the first "changing",
\* would have produced
C3_SinglePairEffect ==
    [][(Finalize /\ Announced /\ astates[edit.ea].forced /\ ev'.raised = "none") =>
          LET p == astates[edit.ea]
              orig == IF p.prev.rpt = p.rpt THEN p.prev.old ELSE p.old
          IN Shifted(p.prev.base, tagcache', owner_of(funcs, edit.ea),
                     decode(orig), decode(p.new))]_vars

\* C3 amended: the second "changing" cancels the pending state without
\* rolling anything back and without a write, computes its difference
\* against the comment stored when it arrives, and the "changed" that
\* follows adds nothing: every count is the count just before the second
\* "changing", shifted by that difference; the state is gone afterwards
C3_SecondChangingOnly ==
    [][(Finalize /\ Announced /\ astates[edit.ea].forced /\ ev'.raised = "none") =>
          /\ ev.closed /\ ev.mid = ev.pre /\ ev.writes = << >>
          /\ Shifted(ev.pre, tagcache', owner_of(funcs, edit.ea),
                     decode(astates[edit.ea].old), decode(edit.new))
          /\ astates'[edit.ea].status = "none"]_vars

\* the counts after the pair are not those of a single pair: the key of the
\* cancelled edit is still counted
C3_Witness ==
    /\ ev.kind = "changed" /\ ev.path = "inorder" /\ ev.raised = "none" /\ ev.p.forced
    /\ ev.p.prev.base = ZeroLedger
    /\ ev.p.new = <<"k2">>
    /\ tagcache.globals.tags["k1"] = 1 /\ tagcache.globals.tags["k2"] = 1

\* C4: a "changing" directly followed by its "changed" is one ledger update
\* cycle, after which the pending state of the address is gone; a "changed"
\* for an address without a pending state raises AddressNotFoundError
C4_OneCycleThenDestroyed ==
    [][/\ (Finalize /\ Announced /\ ev'.raised = "none") =>
              /\ ev'.path = "inorder"
              /\ Shifted(ev.pre, tagcache', owner_of(funcs, edit.ea),
                         decode(cmt[edit.ea][edit.rpt]), decode(edit.new))
              /\ astates'[edit.ea].status = "none"
       /\ (Finalize /\ astates[edit.ea].status = "none") =>
              /\ ev'.raised = "AddressNotFoundError"
              /\ astates' = astates]_vars

\* the second "changed" of an address after one cycle found no state
C4_Witness ==
    /\ ev.kind = "changed" /\ ev.path = "notfound"
    /\ cmt[ev.ea][FALSE] = <<"k1">> /\ tagcache.globals.tags["k1"] = 1
    /\ clean = FALSE /\ nfault = 1

\* C5: a "changed" without a pending state raises no exception and changes
\* no count, no pending state and no hook flag
C5_ReportedNotRaised ==
    (ev.kind = "changed" /\ ev.path = "notfound") =>
        (ev.raised = "none" /\ tagcache = ev.pre /\ disabled = {})

\* C6: a mismatched "changed" restores the counts to what they were before
\* the "changing" (the inverse of its updates), writes an empty comment, and
\* leaves counts that match the tags really carried
C6_MismatchReconciles ==
    (/\ ev.kind \in {"changed", "fchanged"} /\ ev.path = "mismatch" /\ ev.raised = "none"
     /\ ev.p.sound
     /\ Shifted(ev.p.base, ev.pre, IF ev.kind = "changed" THEN owner_of(funcs, ev.ea) ELSE NoFunc,
                decode(ev.p.old), decode(ev.p.new)))
    => /\ SameCounts(ev.p.base, ev.mid)
       /\ Len(ev.writes) = 1 /\ ev.writes[1].text = EmptyText
       /\ LedgerOK(tagcache, funcs, cmt, fcmt)

\* C7: every write of a handler happens with both hooks of its pair
\* disabled, and after every handler, however it ended, no hook is disabled
C7_WritesUnderDisabledHooks ==
    /\ \A i \in 1 .. Len(ev.writes) : ev.writes[i].guarded
    /\ disabled = {}

\* a handler wrote, and one that raised left the hooks enabled
C7_Witness ==
    /\ ev.kind = "changed" /\ ev.path = "mismatch" /\ Len(ev.writes) = 1
    /\ ev.writes[1].text # ev.writes[1].prev
    /\ disabled = {}

\* C8: a "changing" that force-closes a pending state writes nothing back
\* and the close changes no count: the updates of the cancelled "changing"
\* stay in the ledger
C8_ForceCloseNoRollback ==
    (ev.kind \in {"changing", "fchanging"} /\ ev.closed) =>
        (ev.mid = ev.pre /\ ev.writes = << >>)

C8_Witness ==
    /\ ev.kind = "changing" /\ ev.closed /\ ev.p.forced
    /\ ev.p.prev.base = ZeroLedger /\ ev.pre.globals.tags["k1"] = 1
    /\ ev.mid.globals.tags["k1"] = 1

\* C9: no handler write replaces the text the host holds by another text
C9_NoCommentLoss ==
    \A i \in 1 .. Len(ev.writes) : ev.writes[i].text = ev.writes[i].prev

\* C10: add_func(F) decrements globals and increments contents[F] once for
\* every tag key of every address in every chunk of F (a count at zero stays
\* at zero); no other count changes
C10_Moved(k) == Cardinality({a \in func_addrs(funcs, ev.ea) : k \in database_tag(cmt, a)})
C10_AddFuncMoves ==
    (ev.kind = "add_func") =>
        \A k \in Keys :
            /\ tagcache.globals.tags[k] = Max(0, ev.pre.globals.tags[k] - C10_Moved(k))
            /\ tagcache.contents[ev.ea].tags[k] = ev.pre.contents[ev.ea].tags[k] + C10_Moved(k)
            /\ \A f \in FuncStart \ {ev.ea} :
                  tagcache.contents[f].tags[k] = ev.pre.contents[f].tags[k]

\* the specification's scenario, on a function of two chunks
C10_Witness ==
    /\ ev.kind = "add_func" /\ Cardinality(funcs[ev.ea]) = 2
    /\ ev.pre.globals.tags["k1"] = 1 /\ ev.pre.contents[ev.ea].tags["k1"] = 0
    /\ tagcache.globals.tags["k1"] = 0 /\ tagcache.contents[ev.ea].tags["k1"] = 1

(* ================= the claims on the function layout =================== *)
\* the number of addresses of a range whose tags contain key k
tagged(addrs, k) == Cardinality({a \in addrs : k \in database_tag(cmt, a)})

\* the contents of every function but f are as they were
OtherContentsSame(pre, post, f) ==
    \A g \in FuncStart \ {f}, k \in TagKeys : post.contents[g].tags[k] = pre.contents[g].tags[k]

\* every tag of the addresses moved from globals to contents[f] (a count at
\* zero stays at zero), nothing else changed
Promoted(pre, post, f, addrs) ==
    /\ \A k \in TagKeys :
          /\ post.globals.tags[k] = Max(0, pre.globals.tags[k] - tagged(addrs, k))
          /\ post.contents[f].tags[k] = pre.contents[f].tags[k] + tagged(addrs, k)
    /\ OtherContentsSame(pre, post, f)

\* every tag of the addresses moved from contents[f] to globals
Demoted(pre, post, f, addrs) ==
    /\ \A k \in TagKeys :
          /\ post.contents[f].tags[k] = Max(0, pre.contents[f].tags[k] - tagged(addrs, k))
          /\ post.globals.tags[k] = pre.globals.tags[k] + tagged(addrs, k)
    /\ OtherContentsSame(pre, post, f)

\* function f shares none of its chunks with another function
Unshared(fs, f) == \A a \in func_addrs(fs, f) : chunk_owners(fs, a) = {f}

\* C11: del_func(F) decrements contents[F] and increments globals once for
\* every tag key of every address in every chunk of F, then decrements
\* globals once for every tag of the function itself; on a ledger that was
\* exact, no tag of the deleted function stays counted in globals
C11_DelFuncInverse ==
    (ev.kind = "del_func") =>
        /\ \A k \in TagKeys :
              /\ tagcache.contents[ev.ea].tags[k] =
                    Max(0, ev.pre.contents[ev.ea].tags[k] - tagged(func_addrs(ev.fs, ev.ea), k))
              /\ tagcache.globals.tags[k] =
                    Max(0, ev.pre.globals.tags[k] + tagged(func_addrs(ev.fs, ev.ea), k)
                           - (IF k \in ev.own THEN 1 ELSE 0))
        /\ OtherContentsSame(ev.pre, tagcache, ev.ea)
        /\ (ev.exact /\ Unshared(ev.fs, ev.ea) /\ ev.ea \notin XtrnAddr) =>
              LayoutExact(tagcache, funcs, cmt, fcmt, fattr)

\* a function with a tagged address, a function comment and a name is deleted
C11_Witness ==
    /\ ev.kind = "del_func" /\ ev.exact /\ ev.ea \notin XtrnAddr
    /\ ev.own = {"k1", "__name__"}
    /\ tagged(func_addrs(ev.fs, ev.ea), "k1") = 1
    /\ ev.pre.globals.tags["__name__"] = 1 /\ tagcache.globals.tags["__name__"] = 0
    /\ ev.pre.contents[ev.ea].tags["k1"] = 1 /\ tagcache.contents[ev.ea].tags["k1"] = 0
    /\ tagcache.globals.tags["k1"] = ev.pre.globals.tags["k1"]

\* every tag of the addresses added to (d = 1) or taken from (d = -1) the
\* contents of f, globals and the other contents as they were
ContentsOnly(pre, post, f, addrs, d) ==
    /\ \A k \in TagKeys :
          /\ post.contents[f].tags[k] = Max(0, pre.contents[f].tags[k] + d * tagged(addrs, k))
          /\ post.globals.tags[k] = pre.globals.tags[k]
    /\ OtherContentsSame(pre, post, f)

\* the range and the owners of the tail the last handler was given
TailAddrs == ev.lo .. (ev.hi - 1)
TailOwners == chunk_owners(ev.fs, ev.lo)

\* C12: func_tail_appended(F, tail) with more than one owner of the tail
\* increments contents[F] for every tag of every tail address and leaves
\* globals alone; with one owner it decrements globals and increments
\* contents[F]
C12_TailAppended ==
    (ev.kind = "func_tail_appended") =>
        IF Cardinality(TailOwners) > 1
        THEN ContentsOnly(ev.pre, tagcache, ev.ea, TailAddrs, 1)
        ELSE Promoted(ev.pre, tagcache, ev.ea, TailAddrs)

\* a tagged tail that another function already owns is appended
C12_Witness ==
    /\ ev.kind = "func_tail_appended" /\ Cardinality(TailOwners) = 2
    /\ tagged(TailAddrs, "k1") = 1
    /\ tagcache.contents[ev.ea].tags["k1"] = ev.pre.contents[ev.ea].tags["k1"] + 1
    /\ tagcache.globals.tags["k1"] = ev.pre.globals.tags["k1"]
    /\ \E g \in FuncStart \ {ev.ea} : tagcache.contents[g].tags["k1"] = 1

\* C13: removing_func_tail(F, tail) with more than one owner of the tail
\* decrements contents[F] for every tag of every tail address and leaves
\* globals alone; with F the only owner it decrements contents[F] and
\* increments globals, and on an exact ledger contents[F] drops by what
\* globals gains
C13_TailRemoved ==
    (ev.kind = "removing_func_tail") =>
        /\ IF Cardinality(TailOwners) > 1
           THEN ContentsOnly(ev.pre, tagcache, ev.ea, TailAddrs, -1)
           ELSE Demoted(ev.pre, tagcache, ev.ea, TailAddrs)
        /\ (ev.exact /\ Cardinality(TailOwners) = 1) =>
              \A k \in TagKeys :
                  ev.pre.contents[ev.ea].tags[k] - tagcache.contents[ev.ea].tags[k]
                      = tagcache.globals.tags[k] - ev.pre.globals.tags[k]

\* the only owner loses a tail of two tagged addresses
C13_Witness ==
    /\ ev.kind = "removing_func_tail" /\ TailOwners = {ev.ea} /\ ev.exact
    /\ tagged(TailAddrs, "k1") = 2
    /\ ev.pre.contents[ev.ea].tags["k1"] - tagcache.contents[ev.ea].tags["k1"] = 2
    /\ tagcache.globals.tags["k1"] = ev.pre.globals.tags["k1"] + 2

\* the last two handlers were the attach and then the detach of one tail
\* that has no other owner
AttachThenDetach ==
    /\ ev.kind = "removing_func_tail" /\ ev.last.kind = "func_tail_appended"
    /\ ev.last.ea = ev.ea /\ ev.last.lo = ev.lo /\ ev.last.hi = ev.hi
    /\ TailOwners = {ev.ea}

SameTagCounts(L1, L2) == \A w \in Owners, k \in TagKeys : ns_tags(L2, w)[k] = ns_tags(L1, w)[k]

\* C14 as the specification states it: attach then detach of a tail with one
\* owner restores every count, whatever the ledger was before the attach
C14_RestoresAnyLedger ==
    AttachThenDetach => SameTagCounts(ev.last.pre, tagcache)

\* C14 amended: attach then detach of a tail with one owner restores every
\* count when, before the attach, every globals count was at least the
\* number of tail addresses carrying its key (no decrement was clamped)
C14_RestoresCountedTail ==
    (AttachThenDetach /\ \A k \in TagKeys : ev.last.pre.globals.tags[k] >= tagged(TailAddrs, k))
        => SameTagCounts(ev.last.pre, tagcache)

\* a tagged tail was attached and detached, and the counts are back
C14_Witness ==
    /\ AttachThenDetach /\ tagged(TailAddrs, "k1") = 1
    /\ ev.last.pre.globals.tags["k1"] = 1 /\ ev.pre.globals.tags["k1"] = 0
    /\ ev.pre.contents[ev.ea].tags["k1"] = ev.last.pre.contents[ev.ea].tags["k1"] + 1
    /\ SameTagCounts(ev.last.pre, tagcache)

\* C15: set_func_start(F, new_start) with a lower start moves every tag of
\* the gained addresses [new_start, old_start) from globals to contents[F];
\* with a higher start it moves every tag of the lost addresses
\* [old_start, new_start) from contents[F] to globals; with the same start
\* it changes nothing
C15_SetFuncStart ==
    (ev.kind = "set_func_start") =>
        IF ev.lo < ev.ea THEN Promoted(ev.pre, tagcache, ev.ea, ev.lo .. (ev.ea - 1))
        ELSE IF ev.lo > ev.ea THEN Demoted(ev.pre, tagcache, ev.ea, ev.ea .. (ev.lo - 1))
        ELSE SameTagCounts(ev.pre, tagcache)

\* the old and the new end of the function whose end the last handler moved
OldEnd == func_end(ev.fs, ev.ea)

\* C16: set_func_end(F, new_end) with a higher end moves every tag of the
\* gained addresses [old_end, new_end) from globals to contents[F]; with a
\* lower end it moves every tag of the lost addresses [new_end, old_end)
\* from contents[F] to globals; with the same end it changes nothing
C16_SetFuncEnd ==
    (ev.kind = "set_func_end") =>
        IF ev.hi > OldEnd THEN Promoted(ev.pre, tagcache, ev.ea, OldEnd .. (ev.hi - 1))
        ELSE IF ev.hi < OldEnd THEN Demoted(ev.pre, tagcache, ev.ea, ev.hi .. (OldEnd - 1))
        ELSE SameTagCounts(ev.pre, tagcache)

\* the function grew over a tagged address that globals counted
C16_Witness ==
    /\ ev.kind = "set_func_end" /\ ev.hi = OldEnd + 1 /\ ev.exact
    /\ tagged({OldEnd}, "k1") = 1
    /\ ev.pre.globals.tags["k1"] = 1 /\ tagcache.globals.tags["k1"] = 0
    /\ ev.pre.contents[ev.ea].tags["k1"] = 0 /\ tagcache.contents[ev.ea].tags["k1"] = 1

(* ======================= the claims, relocation ======================== *)
Relocated == ev.kind \in {"relocate", "segm_moved"}
\* the addresses at which a relocated global entry of the request arrives
Arrivals ==
    {moved_to(ev.info, q[1]) : q \in {r \in ev.pre.globals.addrs : r[1] \in sources(ev.info)}}

\* C17: after a relocation without failure every global entry that lay in a
\* source range is found with its count at address - from + to, and its old
\* address holds no entry (unless another relocated entry arrived there)
C17_GlobalsRelocated ==
    Relocated /\ ev.fault = NoFault =>
        \A p \in ev.pre.globals.addrs :
            p[1] \in sources(ev.info) =>
                /\ alt_get(tagcache.globals.addrs, moved_to(ev.info, p[1])) = p[2]
                /\ p[1] \notin Arrivals => alt_get(tagcache.globals.addrs, p[1]) = 0

\* the ledger is what it was before the round trip: the globals address
\* index and the blob of every function
Restored ==
    /\ tagcache.globals.addrs = ev.first.globals.addrs
    /\ \A f \in database_functions(funcs) : tagcache.contents[f] = ev.first.contents[f]

\* C18: a relocation followed by the relocation of the same segments back to
\* where they were restores every address key and every count of the globals
\* ledger and of every function's contents store
C18_RoundTrip ==
    Relocated /\ ev.back => Restored

\* the functions the request has moved, at their new addresses
MovedFunctions == database_functions(funcs) \cap targets(ev.info)
\* the base the content now at address x was moved by
shift_of(info, x) ==
    LET s == info[CHOOSE i \in 1 .. Len(info) : x \in seg_target(info[i])] IN s.to - s.from

\* C19: after a relocation without failure the blob of every moved function
\* that had one is stored under the new address with every address key
\* shifted by new_base - old_base and every count unchanged, and no blob
\* remains under the old address (unless a moved function now lives there)
C19_ContentsRekeyed ==
    Relocated /\ ev.fault = NoFault =>
        \A fn \in MovedFunctions :
            LET source == moved_from(ev.info, fn)
                blob == ev.pre.contents[source]
            IN  blob # NoBlob =>
                    /\ tagcache.contents[fn].tags = blob.tags
                    /\ tagcache.contents[fn].addrs =
                          {<<p[1] + shift_of(ev.info, fn), p[2]>> : p \in blob.addrs}
                    /\ source \notin MovedFunctions => tagcache.contents[source] = NoBlob

\* the store the handler would have left had nothing failed
Unfailed == handled(ev.kind, ev.pre, ev.fs, ev.info, ev.moved, NoFault)
\* the old and the new address of the item whose store operation failed
FailedItem ==
    IF ev.fault[1] \in {"remove", "set"}
    THEN {ev.fault[2], moved_to(ev.info, ev.fault[2])}
    ELSE {ev.fault[2], moved_from(ev.info, ev.fault[2])}
OthersAsUnfailed ==
    \A a \in Addr \ FailedItem :
        /\ alt_get(tagcache.globals.addrs, a) = alt_get(Unfailed.globals.addrs, a)
        /\ tagcache.contents[a] = Unfailed.contents[a]

\* C20: when one store operation of a relocation fails, the failure is
\* recorded and every other global and function of the batch ends exactly as
\* it does when nothing fails
C20_BestEffort ==
    Relocated /\ ev.fault # NoFault =>
        /\ ev.fault[2] \in ev.logged
        /\ OthersAsUnfailed

(* ------------- fourth specification: the initial build ---------------- *)
\* A new file has been loaded and is being analysed: the comments the loader
\* made are there, counted in globals or not counted at all; functions are
\* created and comments change while the database is not ready; then the
\* analysis queue empties.
BuildInit ==
    /\ State = "loaded"
    /\ astates = NoStates
    /\ gstates = NoStates
    /\ disabled = {}
    /\ \E ac \in [Addr -> AddrCmts] :
          cmt = [a \in Addr |-> [r \in BOOLEAN |-> IF r THEN ac[a][2] ELSE ac[a][1]]]
    /\ fcmt = [f \in FuncStart |-> [r \in BOOLEAN |-> EmptyText]]
    /\ funcs = [f \in FuncStart |-> {}]
    /\ fattr = [f \in FuncStart |-> {}]
    /\ tagcache \in {exact_ledger(funcs, cmt, fcmt, fattr), ZeroLedger}
    /\ tstates = NoTypes
    /\ attr = NoAttrs
    /\ edit = NoEdit
    /\ ev = NoEvent
    /\ nev = 0
    /\ nfault = 0
    /\ clean = TRUE

BuildNext ==
    \/ ev_auto_queue_empty
    \/ \E ea \in Addr, rpt \in BOOLEAN, new \in Text : changing_cmt(ea, rpt, new, TRUE)
    \/ cmt_changed(TRUE, FALSE)
    \/ \E f \in FuncStart : \E cs \in ChunkSets(f) : func_added(f, cs)

BuildSpec == BuildInit /\ [][BuildNext]_vars

(* ------------------ type information: class typeinfo ------------------- *)
TypeHooks == {"changing_ti", "ti_changed"}

\* an address beyond the last address of the database
OutEA == NoFunc + 1
Wide == Addr \cup {OutEA}

\* interface.address.within raises OutOfBoundsError outside the database
within(ea) == ea \in Addr

\* database.type: whether the host holds type information for the address
database_type(A, ea) == A[ea].type

\* typeinfo.updater up to its second yield: the reference of the type the
\* address had is dropped as soon as the change is announced
typeinfo_updater_begin(L, ea, original) ==
    IF original THEN globals_dec(L, ea, "__typeinfo__") ELSE L

\* an updater that counts the type back whatever "ti_changed" reports
typeinfo_updater_end_always(L, new_ea, tidata) == globals_inc(L, new_ea, "__typeinfo__")

\* typeinfo.updater after its second yield: the address and the type are
\* taken as "ti_changed" gave them; the first test of the chain is true for
\* every mismatch and only logs, so neither the branch that restores the
\* address nor the one that reads the type again can run
typeinfo_updater_end(L, new_ea, tidata) ==
    IF tidata THEN globals_inc(L, new_ea, "__typeinfo__") ELSE L

\* a typeinfo.changing that does not ask whether the database is ready
typeinfo_changing_unready(states, L, D, A, st, ea, new) ==
    IF is_identifier(ea) \/ ~within(ea) THEN Ignored(states, L, D, A, "identifier")
    ELSE [states |-> [states EXCEPT ![ea] = [NoType EXCEPT !.status = "awaiting"]],
          L |-> typeinfo_updater_begin(L, ea, database_type(A, ea)), D |-> D, C |-> A,
          writes |-> << >>, raised |-> "none", path |-> "ok", closed |-> FALSE,
          mid |-> L, p |-> NoType]

\* typeinfo.changing; new tells whether the announced type is non-empty
typeinfo_changing(states, L, D, A, st, ea, new) ==
    IF st # "ready" THEN Ignored(states, L, D, A, "notready")
    ELSE IF is_identifier(ea) THEN Ignored(states, L, D, A, "identifier")
    ELSE IF ~within(ea) THEN Ignored(states, L, D, A, "outofbounds")
    ELSE LET q == states[ea]
             original == database_type(A, ea)
             \* changingchanged.new: a state that is still there is popped and
             \* closed, and the updater returns on GeneratorExit
             closed == q.status # "none"
             D1 == hook_disable(D, TypeHooks)
             L1 == typeinfo_updater_begin(L, ea, original)
             D2 == hook_enable(D1, TypeHooks)
             p == [status |-> "awaiting", original |-> original, expected |-> new,
                   base |-> L, after |-> L1, forced |-> closed,
                   prev |-> IF closed
                            THEN [base |-> q.base, after |-> q.after, original |-> q.original]
                            ELSE NoTypePrev]
         IN [states |-> [states EXCEPT ![ea] = p], L |-> L1, D |-> D2, C |-> A,
             writes |-> << >>, raised |-> "none", path |-> "ok", closed |-> closed,
             mid |-> L, p |-> p]

\* typeinfo.changed; tidata tells whether the stored type is non-empty
typeinfo_changed(states, L, D, A, st, ea, tidata) ==
    IF st # "ready" THEN Ignored(states, L, D, A, "notready")
    ELSE IF is_identifier(ea) THEN Ignored(states, L, D, A, "identifier")
    ELSE IF ~within(ea) THEN Ignored(states, L, D, A, "outofbounds")
    ELSE LET q == states[ea]
             D1 == hook_disable(D, TypeHooks)
             L1 == typeinfo_updater_end(L, ea, tidata)
             D2 == hook_enable(D1, TypeHooks)
         IN IF q.status = "none"
            THEN \* changingchanged.resume raises, nothing catches it
                 [Ignored(states, L, D, A, "notfound") EXCEPT !.raised = "AddressNotFoundError"]
            ELSE \* event.close() makes the consumer pop the state
                 [states |-> [states EXCEPT ![ea] = NoType], L |-> L1, D |-> D2, C |-> A,
                  writes |-> << >>, raised |-> "none", path |-> "ok", closed |-> FALSE,
                  mid |-> L, p |-> q]

(* -------- fifth specification: type changes and database bounds -------- *)
\* the ledger a database whose only tags are types should have
type_ledger(A) ==
    [ZeroLedger EXCEPT
        !.globals.tags["__typeinfo__"] = Cardinality({a \in Addr : A[a].type}),
        !.globals.addrs = [a \in Wide |-> IF a \in Addr /\ A[a].type THEN 1 ELSE 0]]

TypeLayouts == {[f \in FuncStart \cup {OutEA} |-> {}],
                [f \in FuncStart \cup {OutEA} |-> IF f = 1 THEN {<<1, 2>>} ELSE {}]}

TypeInit ==
    /\ State = "ready"
    /\ astates = [a \in Wide |-> NoState]
    /\ gstates = [a \in Wide |-> NoState]
    /\ tstates = NoTypes
    /\ disabled = {}
    /\ cmt = [a \in Wide |-> [r \in BOOLEAN |-> EmptyText]]
    /\ fcmt = [f \in FuncStart |-> [r \in BOOLEAN |-> EmptyText]]
    /\ funcs \in TypeLayouts
    /\ fattr = [f \in FuncStart |-> {}]
    /\ \E ts \in SUBSET Addr : attr = [a \in Addr |-> [NoAttr EXCEPT !.type = a \in ts]]
    /\ tagcache = type_ledger(attr)
    /\ edit = NoEdit
    /\ ev = NoEvent
    /\ nev = 0
    /\ nfault = 0
    /\ clean = TRUE

\* a changing_ti whose correlator keeps its states in the dictionary of the
\* comment correlators: registering a state pops the one that is there
changing_ti_shared(ea, new, deliver) ==
    /\ edit.kind = "none"
    /\ nev < MaxEvents
    /\ deliver \/ nfault < MaxFaults
    /\ nev' = nev + 1
    /\ nfault' = IF deliver THEN nfault ELSE nfault + 1
    /\ edit' = [kind |-> "ti", ea |-> ea, rpt |-> FALSE, new |-> new]
    /\ clean' = (clean /\ deliver)
    /\ IF deliver /\ "changing_ti" \notin disabled
       THEN LET r == typeinfo_changing(tstates, tagcache, disabled, attr, State, ea, new)
            IN /\ tstates' = r.states
               /\ astates' = IF r.path = "ok" THEN [astates EXCEPT ![ea] = NoState] ELSE astates
               /\ gstates' = IF r.path = "ok" THEN [gstates EXCEPT ![ea] = NoState] ELSE gstates
               /\ tagcache' = r.L
               /\ disabled' = r.D
               /\ ev' = Observed("changing_ti", ea, FALSE, r, tagcache)
       ELSE /\ ev' = NoEvent
            /\ UNCHANGED <<tstates, astates, gstates, tagcache, disabled>>
    /\ UNCHANGED <<State, cmt, fcmt, funcs, fattr, attr>>

\* the host announces a change of the type of an address: changing_ti
changing_ti(ea, new, deliver) ==
    /\ edit.kind = "none"
    /\ nev < MaxEvents
    /\ deliver \/ nfault < MaxFaults
    /\ nev' = nev + 1
    /\ nfault' = IF deliver THEN nfault ELSE nfault + 1
    /\ edit' = [kind |-> "ti", ea |-> ea, rpt |-> FALSE, new |-> new]
    /\ clean' = (clean /\ deliver)
    /\ IF deliver /\ "changing_ti" \notin disabled
       THEN LET r == typeinfo_changing(tstates, tagcache, disabled, attr, State, ea, new)
            IN /\ tstates' = r.states
               /\ tagcache' = r.L
               /\ disabled' = r.D
               /\ ev' = Observed("changing_ti", ea, FALSE, r, tagcache)
       ELSE /\ ev' = NoEvent
            /\ UNCHANGED <<tstates, tagcache, disabled>>
    /\ UNCHANGED <<State, astates, gstates, cmt, fcmt, funcs, fattr, attr>>

\* the host stores the announced type and reports it: ti_changed
ti_changed(deliver) ==
    /\ edit.kind = "ti"
    /\ deliver \/ nfault < MaxFaults
    /\ nfault' = IF deliver THEN nfault ELSE nfault + 1
    /\ edit' = NoEdit
    /\ attr' = IF edit.ea \in Addr THEN [attr EXCEPT ![edit.ea].type = edit.new] ELSE attr
    /\ IF deliver /\ "ti_changed" \notin disabled
       THEN LET r == typeinfo_changed(tstates, tagcache, disabled, attr', State,
                                      edit.ea, edit.new)
            IN /\ tstates' = r.states
               /\ tagcache' = r.L
               /\ disabled' = r.D
               /\ ev' = Observed("ti_changed", edit.ea, FALSE, r, tagcache)
               /\ clean' = (clean /\ r.raised = "none")
       ELSE /\ ev' = NoEvent
            /\ clean' = FALSE
            /\ UNCHANGED <<tstates, tagcache, disabled>>
    /\ UNCHANGED <<State, astates, gstates, cmt, fcmt, funcs, fattr, nev>>

TypeAddr == Wide \cup {IdentEA}

TypeNext ==
    \/ \E ea \in TypeAddr, new \in BOOLEAN, deliver \in BOOLEAN : changing_ti(ea, new, deliver)
    \/ \E deliver \in BOOLEAN : ti_changed(deliver)
    \/ \E ea \in TypeAddr, rpt \in BOOLEAN, new \in Text : changing_cmt(ea, rpt, new, TRUE)
    \/ cmt_changed(TRUE, FALSE)
    \/ \E s \in RangeStart \cup {OutEA}, rpt \in BOOLEAN, new \in Text :
          changing_range_cmt(s, rpt, new, TRUE)
    \/ range_cmt_changed(TRUE, FALSE)

TypeSpec == TypeInit /\ [][TypeNext]_vars

(* ------------- sixth specification: the ledger on its own -------------- *)
MaxCalls == 4
MaxNames == 2
LedgerOwners == {NoFunc, 1}
LedgerAddr == {0, 1}

\* calls: for every namespace and key, the number of inc calls, of dec calls,
\* and of dec calls that found the count at zero (observation only)
NoCalls == [w \in LedgerOwners |-> [k \in Keys |-> [inc |-> 0, dec |-> 0, floored |-> 0]]]

LedgerInit ==
    /\ State = "ready"
    /\ astates = NoStates
    /\ gstates = NoStates
    /\ tstates = NoTypes
    /\ tagcache = ZeroLedger
    /\ disabled = {}
    /\ cmt = [a \in Addr |-> [r \in BOOLEAN |-> EmptyText]]
    /\ fcmt = [f \in FuncStart |-> [r \in BOOLEAN |-> EmptyText]]
    /\ funcs = [f \in FuncStart |-> {}]
    /\ fattr = [f \in FuncStart |-> {}]
    /\ attr = NoAttrs
    /\ edit = NoEdit
    /\ ev = [kind |-> "none", calls |-> NoCalls]
    /\ nev = 0
    /\ nfault = 0
    /\ clean = TRUE

LedgerFrame ==
    UNCHANGED <<State, astates, gstates, tstates, disabled, cmt, fcmt, funcs, fattr, attr, edit,
                nfault, clean>>

\* globals.inc(ea, key) or contents.inc(ea, key, target=w)
ledger_inc(w, ea, key) ==
    /\ nev < MaxCalls
    /\ nev' = nev + 1
    /\ tagcache' = cache_call(tagcache, IF w = NoFunc THEN "ginc" ELSE "cinc", ea, key, w)
    /\ ev' = [kind |-> "inc", calls |-> [ev.calls EXCEPT ![w][key].inc = @ + 1]]
    /\ LedgerFrame

\* globals.dec(ea, key) or contents.dec(ea, key, target=w)
ledger_dec(w, ea, key) ==
    /\ nev < MaxCalls
    /\ nev' = nev + 1
    /\ tagcache' = cache_call(tagcache, IF w = NoFunc THEN "gdec" ELSE "cdec", ea, key, w)
    /\ ev' = [kind |-> "dec",
              calls |-> [ev.calls EXCEPT ![w][key].dec = @ + 1,
                                         ![w][key].floored =
                                             IF ns_tags(tagcache, w)[key] = 0 THEN @ + 1 ELSE @]]
    /\ LedgerFrame

LedgerNext ==
    \/ \E w \in LedgerOwners, ea \in LedgerAddr, key \in Keys : ledger_inc(w, ea, key)
    \/ \E w \in LedgerOwners, ea \in LedgerAddr, key \in Keys : ledger_dec(w, ea, key)

LedgerSpec == LedgerInit /\ [][LedgerNext]_vars

(* ------ seventh specification: the edits of two addresses interleaved --- *)
\* one in-order pair of address.changing and address.changed on a database S,
\* the host storing the comment in between
pair_changing(S, e) ==
    LET r == address_changing(S.states, S.L, S.D, S.C, S.fs, "ready", FALSE, e.ea, e.rpt, e.new)
    IN [S EXCEPT !.states = r.states, !.L = r.L, !.D = r.D,
                 !.clean = S.clean /\ r.raised = "none"]

pair_changed(S, e) ==
    LET stored == [S.C EXCEPT ![e.ea][e.rpt] = e.new]
        r == address_changed(S.states, S.L, S.D, stored, S.fs, "ready", e.ea, e.rpt, FALSE)
    IN [S EXCEPT !.states = r.states, !.L = r.L, !.D = r.D, !.C = r.C,
                 !.clean = S.clean /\ r.raised = "none"]

\* the pairs of a sequence of edits processed one after the other
RECURSIVE one_after_the_other(_, _)
one_after_the_other(S, es) ==
    IF es = << >> THEN S
    ELSE one_after_the_other(pair_changed(pair_changing(S, Head(es)), Head(es)), Tail(es))

Database == [states |-> astates, L |-> tagcache, D |-> disabled, C |-> cmt, fs |-> funcs,
             clean |-> clean]

PairCmts == {<<EmptyText, EmptyText>>, <<<<"k1">>, EmptyText>>}
PairLayouts == {[f \in FuncStart |-> {}], [f \in FuncStart |-> IF f = 1 THEN {<<1, 2>>} ELSE {}]}

\* edit.begin is the database before the first edit, edit.seq the edits in
\* the order their "changing" arrived, edit.done the addresses whose
\* "changed" arrived
PairInit ==
    /\ State = "ready"
    /\ astates = NoStates
    /\ gstates = NoStates
    /\ tstates = NoTypes
    /\ disabled = {}
    /\ \E ac \in [Addr -> PairCmts] :
          cmt = [a \in Addr |-> [r \in BOOLEAN |-> IF r THEN ac[a][2] ELSE ac[a][1]]]
    /\ fcmt = [f \in FuncStart |-> [r \in BOOLEAN |-> EmptyText]]
    /\ funcs \in PairLayouts
    /\ fattr = [f \in FuncStart |-> {}]
    /\ attr = NoAttrs
    /\ tagcache \in {exact_ledger(funcs, cmt, fcmt, fattr), ZeroLedger}
    /\ clean = TRUE
    /\ edit = [kind |-> "pairs", begin |-> Database, seq |-> << >>, done |-> {}]
    /\ ev = NoEvent
    /\ nev = 0
    /\ nfault = 0

PairFrame == UNCHANGED <<State, gstates, tstates, fcmt, funcs, fattr, attr, nfault>>

\* changing_cmt of an address none of whose edits is under way
first_half(ea, rpt, new) ==
    /\ nev < MaxEvents
    /\ \A i \in 1 .. Len(edit.seq) : edit.seq[i].ea # ea
    /\ nev' = nev + 1
    /\ LET e == [ea |-> ea, rpt |-> rpt, new |-> new]
           S == pair_changing(Database, e)
       IN /\ astates' = S.states
          /\ tagcache' = S.L
          /\ disabled' = S.D
          /\ clean' = S.clean
          /\ edit' = [edit EXCEPT !.seq = Append(@, e)]
          /\ ev' = [NoEvent EXCEPT !.kind = "changing", !.ea = ea, !.rpt = rpt, !.pre = tagcache]
    /\ UNCHANGED cmt
    /\ PairFrame

\* the host stores the comment of an edit under way and sends cmt_changed
second_half(i) ==
    /\ i \in 1 .. Len(edit.seq)
    /\ edit.seq[i].ea \notin edit.done
    /\ LET e == edit.seq[i]
           S == pair_changed(Database, e)
       IN /\ astates' = S.states
          /\ tagcache' = S.L
          /\ disabled' = S.D
          /\ cmt' = S.C
          /\ clean' = S.clean
          /\ edit' = [edit EXCEPT !.done = @ \cup {e.ea}]
          /\ ev' = [NoEvent EXCEPT !.kind = "changed", !.ea = e.ea, !.rpt = e.rpt, !.pre = tagcache]
    /\ UNCHANGED nev
    /\ PairFrame

PairNext ==
    \/ \E ea \in Addr, rpt \in BOOLEAN, new \in Text : first_half(ea, rpt, new)
    \/ \E i \in 1 .. MaxEvents : second_half(i)

PairSpec == PairInit /\ [][PairNext]_vars

(* ---------------- names and extra comments of an address --------------- *)
\* rename: the namespace is globals for an address outside any function and
\* for the start of a function, the contents of the function otherwise
rename_ctx(fs, ea) ==
    LET fn == get_func(fs, ea) IN IF fn = NoFunc \/ fn = ea THEN NoFunc ELSE fn

ctx_inc(L, w, ea, key) == cache_call(L, IF w = NoFunc THEN "ginc" ELSE "cinc", ea, key, w)
ctx_dec(L, w, ea, key) == cache_call(L, IF w = NoFunc THEN "gdec" ELSE "cdec", ea, key, w)

\* a rename that counts every name it is given
rename_counts_always(L, A, fs, ea, newname) ==
    IF newname THEN ctx_inc(L, rename_ctx(fs, ea), ea, "__name__")
    ELSE ctx_dec(L, rename_ctx(fs, ea), ea, "__name__")

\* rename(ea, newname); newname tells whether the new name is non-empty; the
\* flags still describe the name the address has
rename(L, A, fs, ea, newname) ==
    LET labelQ == A[ea].name = "label"
        customQ == A[ea].name = "custom"
        ctx == rename_ctx(fs, ea)
    IN IF ~newname
       THEN IF ~labelQ /\ customQ THEN ctx_dec(L, ctx, ea, "__name__") ELSE L
       ELSE IF (labelQ /\ ~customQ) \/ (~labelQ /\ ~customQ)
            THEN ctx_inc(L, ctx, ea, "__name__")
            ELSE L

\* the line indices of the extra comments: the anterior lines start at E_PREV,
\* the posterior lines at E_NEXT
E_PREV == 10
E_NEXT == 20
MAX_ITEM_LINES == IF E_NEXT > E_PREV THEN E_NEXT - E_PREV ELSE E_PREV - E_NEXT
is_prefix(line_idx) == E_PREV <= line_idx /\ line_idx < E_PREV + MAX_ITEM_LINES
is_suffix(line_idx) == E_NEXT <= line_idx /\ line_idx < E_NEXT + MAX_ITEM_LINES

\* extra_cmt.changed(ea, line_idx, cmt); set tells whether cmt is not None
extra_cmt_changed(L, A, fs, ea, line_idx, set) ==
    IF is_identifier(ea) THEN L
    ELSE IF ~within(ea) THEN L
    ELSE LET ctx == IF get_func(fs, ea) # NoFunc THEN get_func(fs, ea) ELSE NoFunc
             base_idx == IF is_prefix(line_idx) THEN E_PREV ELSE E_NEXT
             tag == IF is_prefix(line_idx) THEN "__extra_prefix__" ELSE "__extra_suffix__"
         IN IF ~is_prefix(line_idx) /\ ~is_suffix(line_idx) THEN L
            ELSE IF line_idx \notin {base_idx} THEN L
            ELSE IF ~set THEN ctx_dec(L, ctx, ea, tag)
            ELSE ctx_inc(L, ctx, ea, tag)

(* ------- eighth specification: renames and extra comments -------------- *)
\* the ledger a database whose only tags are custom names should have
name_ledger(fs, A) ==
    LET named(w) == {a \in Addr : A[a].name = "custom" /\ rename_ctx(fs, a) = w}
        counts(w) == [ZeroCounts EXCEPT !.tags["__name__"] = Cardinality(named(w)),
                                        !.addrs = [a \in Addr |-> IF a \in named(w) THEN 1 ELSE 0]]
    IN [globals |-> counts(NoFunc), contents |-> [f \in FuncStart |-> counts(f)]]

AttrLayouts == {[f \in FuncStart |-> {}], [f \in FuncStart |-> IF f = 1 THEN {<<1, 2>>, <<0, 1>>} ELSE {}]}
Names == {"none", "label", "custom"}
LineIdx == {E_PREV, E_PREV + 1, E_NEXT, E_NEXT + 1, 0}

\* what is kept of a handler that ran: its arguments, the ledger before it
\* (pre) and the attributes the address had (was)
NoAttrEvent == [kind |-> "none", ea |-> 0, pre |-> ZeroLedger, newname |-> FALSE, was |-> NoAttr,
                idx |-> 0, set |-> FALSE]
AttrEvent(e) == [kind |-> e.kind, ea |-> e.ea, pre |-> e.pre, newname |-> e.newname,
                 was |-> e.was, idx |-> e.idx, set |-> e.set]
\* the record of a handler together with the record of the one before it
Following(e, last) == [kind |-> e.kind, ea |-> e.ea, pre |-> e.pre, newname |-> e.newname,
                       was |-> e.was, idx |-> e.idx, set |-> e.set, last |-> last]

AttrInit ==
    /\ State = "ready"
    /\ astates = NoStates
    /\ gstates = NoStates
    /\ tstates = NoTypes
    /\ disabled = {}
    /\ cmt = [a \in Addr |-> [r \in BOOLEAN |-> EmptyText]]
    /\ fcmt = [f \in FuncStart |-> [r \in BOOLEAN |-> EmptyText]]
    /\ funcs \in AttrLayouts
    /\ fattr = [f \in FuncStart |-> {}]
    /\ \E ns \in [Addr -> Names] : attr = [a \in Addr |-> [NoAttr EXCEPT !.name = ns[a]]]
    /\ tagcache = name_ledger(funcs, attr)
    /\ edit = NoEdit
    /\ ev = Following(NoAttrEvent, NoAttrEvent)
    /\ nev = 0
    /\ nfault = 0
    /\ clean = TRUE

AttrFrame ==
    UNCHANGED <<State, astates, gstates, tstates, disabled, cmt, fcmt, funcs, fattr, edit,
                nfault, clean>>

\* the host is about to name the address (newname) or to delete its name, and
\* then does so; an address that loses its name may get a generated label
ev_rename(ea, newname, label) ==
    /\ nev < MaxNames
    /\ newname => ~label
    /\ nev' = nev + 1
    /\ tagcache' = rename(tagcache, attr, funcs, ea, newname)
    /\ attr' = [attr EXCEPT ![ea].name =
                    IF newname THEN "custom" ELSE IF label THEN "label" ELSE "none"]
    /\ ev' = Following([kind |-> "rename", ea |-> ea, pre |-> tagcache, newname |-> newname,
                         was |-> attr[ea], idx |-> 0, set |-> FALSE], AttrEvent(ev))
    /\ AttrFrame

\* the host has written (set) or deleted a line of an extra comment; it
\* deletes only a comment that is there
extra_cmt_changed_event(ea, line_idx, set) ==
    /\ nev < MaxNames
    /\ (line_idx = E_PREV /\ ~set) => (ea \in Addr /\ attr[ea].prefix)
    /\ (line_idx = E_NEXT /\ ~set) => (ea \in Addr /\ attr[ea].suffix)
    /\ nev' = nev + 1
    /\ tagcache' = extra_cmt_changed(tagcache, attr, funcs, ea, line_idx, set)
    /\ attr' = IF ea \notin Addr THEN attr
               ELSE IF line_idx = E_PREV THEN [attr EXCEPT ![ea].prefix = set]
               ELSE IF line_idx = E_NEXT THEN [attr EXCEPT ![ea].suffix = set]
               ELSE attr
    /\ ev' = Following([kind |-> "extra_cmt_changed", ea |-> ea, pre |-> tagcache,
                         newname |-> FALSE, was |-> IF ea \in Addr THEN attr[ea] ELSE NoAttr,
                         idx |-> line_idx, set |-> set], AttrEvent(ev))
    /\ AttrFrame

AttrNext ==
    \/ \E ea \in Addr, newname \in BOOLEAN, label \in BOOLEAN : ev_rename(ea, newname, label)
    \/ \E ea \in TypeAddr, line_idx \in LineIdx, set \in BOOLEAN :
          extra_cmt_changed_event(ea, line_idx, set)

AttrSpec == AttrInit /\ [][AttrNext]_vars

(* ===================== the claims, C21 to C30 ========================== *)
\* C21: every step that takes the lifecycle state to ready, whichever
\* notification makes it, leaves the ledger the initial build produces, and no
\* lifecycle notification changes the ledger of a database that is ready
C21_BuildOnReady ==
    [][/\ State # "ready" /\ State' = "ready"
          => tagcache' = process_functions(tagcache, funcs, cmt)
       /\ State = "ready" /\ ev'.kind \in {"ev_init", "ev_newfile", "ev_oldfile", "on_ready"}
          => tagcache' = tagcache]_vars

\* the functions the build processes: those that are not runtime-linked
Built == {f \in FuncStart \ XtrnAddr : func_exists(funcs, f)}

\* C22: after the initial build every tag on an address inside a function is
\* counted in the contents of its owner, at least once for every address that
\* carries it, and the address is no longer in the globals ledger
C22_BuildCounts ==
    [][State = "loaded" /\ State' = "ready" =>
          \A f \in Built :
              /\ \A k \in Keys :
                    tagcache'.contents[f].tags[k] >=
                        Cardinality({a \in func_addrs(funcs, f) : k \in database_tag(cmt, a)})
              /\ \A a \in func_addrs(funcs, f) :
                    database_tag(cmt, a) # {} =>
                        tagcache'.contents[f].addrs[a] > 0 /\ tagcache'.globals.addrs[a] = 0]_vars

TI == "__typeinfo__"
Bit(b) == IF b THEN 1 ELSE 0

\* a delivered "ti_changed" that found the state its own "changing_ti" made,
\* with no other ledger update in between
TypePair == ev.kind = "ti_changed" /\ ev.path = "ok" /\ ev.pre = ev.p.after

Correlated == {"changing", "changed", "fchanging", "fchanged", "changing_ti", "ti_changed"}

\* C24: a notification of any correlator entry point whose address is outside
\* the database bounds is ignored: no exception, no ledger count changed, and
\* no pending state registered for the address in any correlator
C24_OutOfBoundsIgnored ==
    (ev.kind \in Correlated /\ ev.ea = OutEA) =>
        /\ ev.raised = "none"
        /\ tagcache = ev.pre
        /\ astates[OutEA].status = "none"
        /\ gstates[OutEA].status = "none"
        /\ OutEA \notin DOMAIN tstates

\* "changing_ti" came twice for the address and then "ti_changed", with no
\* other ledger update since the first "changing_ti"
TypeTwice == TypePair /\ ev.p.forced /\ ev.p.base = ev.p.prev.after

\* C30: two changing_ti for one address without a ti_changed between them,
\* then one ti_changed, change the "__typeinfo__" count as one pair would have
\* changed the count before the first changing_ti: the type the address had is
\* dropped once, the stored type is counted once
C30_SingleDecrement ==
    TypeTwice =>
        LET n == ev.p.prev.base.globals.tags[TI]
        IN tagcache.globals.tags[TI]
              = Max(0, n - Bit(ev.p.prev.original)) + Bit(attr[ev.ea].type)

\* C25 as stated: after any sequence of inc and dec calls on one namespace and
\* key, the count is the number of inc calls less the number of dec calls,
\* clamped at zero
C25_ClampedDifference ==
    \A w \in LedgerOwners, k \in Keys :
        ns_tags(tagcache, w)[k] = Max(0, ev.calls[w][k].inc - ev.calls[w][k].dec)

\* C25 (amended): the count is the number of inc calls, less the number of
\* dec calls, plus the number of dec calls that found the count at zero; so it
\* is the plain difference when no dec was clamped, and never below the
\* difference clamped at zero
C25_ClampedPerCall ==
    \A w \in LedgerOwners, k \in Keys :
        LET c == ev.calls[w][k]
            n == ns_tags(tagcache, w)[k]
        IN /\ n = c.inc - c.dec + c.floored
           /\ c.floored = 0 => n = c.inc - c.dec
           /\ n >= Max(0, c.inc - c.dec)

\* a dec on an absent key, then an inc: the key is counted once
C25_Witness ==
    /\ ev.kind = "inc"
    /\ ev.calls[NoFunc]["k1"] = [inc |-> 1, dec |-> 1, floored |-> 1]
    /\ tagcache.globals.tags["k1"] = 1

\* both pairs are complete
BothDone == Len(edit.seq) = 2 /\ edit.done = {edit.seq[1].ea, edit.seq[2].ea}
Reverse(es) == <<es[2], es[1]>>

\* C26: for two distinct addresses, whatever the interleaving of the two
\* changing/changed pairs, the ledger, the pending states, the comments and the
\* absence of an exception are those of the two pairs processed one after the
\* other in the order their "changing" arrived; from an exact ledger the
\* other order gives the same
C26_Interleaving ==
    BothDone =>
        /\ Database = one_after_the_other(edit.begin, edit.seq)
        /\ edit.begin.L = exact_ledger(funcs, edit.begin.C, fcmt, fattr) =>
              Database = one_after_the_other(edit.begin, Reverse(edit.seq))

\* the second pair began before the first was complete, and both changed counts
C26_Witness ==
    /\ BothDone
    /\ ev.kind = "changed"
    /\ ev.ea = edit.seq[1].ea
    /\ edit.begin.L.globals.tags["k1"] = 1
    /\ tagcache.globals.tags["k1"] = 0
    /\ tagcache.globals.tags["k2"] = 1
    /\ clean

\* the namespace of owner w (globals for NoFunc) differs between two ledgers
Touched(L1, L2, w) ==
    IF w = NoFunc THEN L1.globals # L2.globals ELSE L1.contents[w] # L2.contents[w]

PlainEdit == ev.kind \in {"changing", "changed"}

\* a delivered changing_cmt whose new text brings key k to the address
Brings(k) == ev.kind = "changing" /\ ev.path = "ok" /\ k \in decode(ev.p.new) \ decode(ev.p.old)

\* C27 as stated: a plain-comment edit at ea updates contents[F] when ea lies
\* within a function F and globals when it lies in none, and no other namespace
C27_NamespaceOfEdit ==
    PlainEdit =>
        LET w == get_func(funcs, ev.ea)
        IN /\ \A x \in Owners : Touched(ev.pre, tagcache, x) => x = w
           /\ \A k \in Keys : Brings(k) => ns_tags(tagcache, w)[k] = ns_tags(ev.pre, w)[k] + 1

\* C27 (amended): the edit updates contents[F] when ea lies within a function
\* F that is not runtime-linked, and globals when ea lies in no function or in
\* a runtime-linked one; it never updates another namespace
C27_NamespaceUnlessLinked ==
    PlainEdit =>
        LET f == get_func(funcs, ev.ea)
            w == IF f # NoFunc /\ ev.ea \notin XtrnAddr THEN f ELSE NoFunc
        IN /\ \A x \in Owners : Touched(ev.pre, tagcache, x) => x = w
           /\ \A k \in Keys : Brings(k) => ns_tags(tagcache, w)[k] = ns_tags(ev.pre, w)[k] + 1

\* a tag is added inside an ordinary function, and counted in its contents
C27_Witness ==
    /\ Brings("k1")
    /\ get_func(funcs, ev.ea) = 1
    /\ tagcache.contents[1].tags["k1"] = 1
    /\ tagcache.globals = ev.pre.globals

NAME == "__name__"
Renamed == ev.kind = "rename"
\* the count of a key in the namespace rename and extra_cmt.changed pick
name_count(L, w) == ns_tags(L, w)[NAME]
OnlyChanged(L1, L2, w, ea, key) ==
    /\ \A x \in Owners : \A k \in TagKeys : (x # w \/ k # key) => ns_tags(L2, x)[k] = ns_tags(L1, x)[k]
    /\ \A x \in Owners \ {w} : ~Touched(L1, L2, x)

\* C28: rename(ea, newname) decrements "__name__" for an empty newname iff the
\* address has a custom name, increments it for a non-empty newname iff the
\* address has a generated label or no name, and changes nothing when a
\* custom name replaces a custom name; naming an address that had no custom
\* name and then deleting the name gives back the ledger there was before
C28_Rename ==
    Renamed =>
        LET w == rename_ctx(funcs, ev.ea)
            n == name_count(ev.pre, w)
        IN /\ name_count(tagcache, w) =
                 IF ev.newname THEN (IF ev.was.name = "custom" THEN n ELSE n + 1)
                 ELSE (IF ev.was.name = "custom" THEN Max(0, n - 1) ELSE n)
           /\ OnlyChanged(ev.pre, tagcache, w, ev.ea, NAME)
           /\ (ev.newname /\ ev.was.name = "custom") => tagcache = ev.pre
           /\ (/\ ~ev.newname
               /\ ev.last.kind = "rename" /\ ev.last.ea = ev.ea /\ ev.last.newname
               /\ ev.last.was.name # "custom") => tagcache = ev.last.pre

\* a name is given to an address that had none, and then deleted
C28_Witness ==
    /\ Renamed /\ ~ev.newname
    /\ ev.last.kind = "rename" /\ ev.last.ea = ev.ea /\ ev.last.newname
    /\ ev.last.was.name = "label"
    /\ name_count(ev.pre, rename_ctx(funcs, ev.ea)) = name_count(ev.last.pre, rename_ctx(funcs, ev.ea)) + 1
    /\ tagcache = ev.last.pre

ExtraChanged == ev.kind = "extra_cmt_changed"
\* C29: extra_cmt.changed changes the ledger only for the first line index of
\* the anterior or posterior block and an address of the database; and after
\* any sequence of sets and clears the count of the key in the namespace of
\* the address is the number of addresses there whose comment is present
C29_ExtraPresence ==
    /\ (ExtraChanged /\ (ev.idx \notin {E_PREV, E_NEXT} \/ ev.ea \notin Addr)) => tagcache = ev.pre
    /\ \A w \in Owners :
          LET here == {a \in Addr : (IF get_func(funcs, a) # NoFunc THEN get_func(funcs, a)
                                     ELSE NoFunc) = w}
          IN /\ ns_tags(tagcache, w)["__extra_prefix__"] = Cardinality({a \in here : attr[a].prefix})
             /\ ns_tags(tagcache, w)["__extra_suffix__"] = Cardinality({a \in here : attr[a].suffix})

(* ----- ninth specification: the three correlators and the lifecycle ----- *)
ReadyNext ==
    \/ Next
    \/ \E ea \in EventAddr, new \in BOOLEAN, deliver \in BOOLEAN : changing_ti(ea, new, deliver)
    \/ \E deliver \in BOOLEAN : ti_changed(deliver)

ReadySpec == Init /\ [][ReadyNext]_vars

(* ------------- function.tag: setting and removing a tag --------------- *)
\* the host announces a function comment edit to globals.changing unless the
\* hook is disabled
deliver_changing(states, L, D, FC, fs, st, fn, rpt, text) ==
    IF "changing_range_cmt" \in D THEN Ignored(states, L, D, FC, "disabled")
    ELSE globals_changing(states, L, D, FC, fs, st, TRUE, fn, rpt, text)

\* the host reports the stored function comment to globals.changed unless the
\* hook is disabled; a is what the announcement left
deliver_changed(a, stored, fs, st, fn, rpt, text) ==
    IF "range_cmt_changed" \in a.D THEN Ignored(a.states, a.L, a.D, stored, "disabled")
    ELSE globals_changed(a.states, a.L, a.D, stored, fs, st, fn, rpt, text, FALSE)

written(b) == [states |-> b.states, L |-> b.L, D |-> b.D, C |-> b.C, raised |-> FALSE]

\* the host stores a function comment on behalf of a caller: it announces the
\* edit, stores the text and reports it; the call either does so or raises
\* before anything
write_range_cmt(states, L, D, FC, fs, st, fn, rpt, text, wfail) ==
    IF wfail THEN [states |-> states, L |-> L, D |-> D, C |-> FC, raised |-> TRUE]
    ELSE written(deliver_changed(deliver_changing(states, L, D, FC, fs, st, fn, rpt, text),
                                 [FC EXCEPT ![fn][rpt] = text], fs, st, fn, rpt, text))

\* the comment function.tag picks for a key: the repeatable one unless only
\* the non-repeatable one holds the key
tag_where(FC, fn, key) ==
    IF key \in decode(FC[fn][TRUE]) THEN TRUE
    ELSE IF key \in decode(FC[fn][FALSE]) THEN FALSE
    ELSE TRUE

\* function.tag after the write w: the hooks are enabled again, and a call
\* that did not raise counts the key when `counted`
tag_done(w, during, where, fn, key, counted, op) ==
    [states |-> w.states, D |-> hook_enable(w.D, RangeCmtHooks), C |-> w.C,
     during |-> during, where |-> where,
     raised |-> IF w.raised THEN "Exception" ELSE "none",
     L |-> IF ~w.raised /\ counted THEN cache_call(w.L, op, fn, key, NoFunc) ELSE w.L]

\* a function.tag that writes the comment with the hooks left enabled
function_tag_set_unguarded(states, L, D, FC, fs, st, ea, key, wfail) ==
    LET fn == get_func(fs, ea)
        where == tag_where(FC, fn, key)
        state == decode(FC[fn][where])
    IN tag_done(write_range_cmt(states, L, D, FC, fs, st, fn, where,
                                encode(state \cup {key}), wfail),
                D, where, fn, key, key \notin state, "ginc")

\* function.tag(func, key, value) for an explicit key and an address ea of a
\* function that is not runtime-linked
function_tag_set(states, L, D, FC, fs, st, ea, key, wfail) ==
    LET fn == get_func(fs, ea)
        where == tag_where(FC, fn, key)
        state == decode(FC[fn][where])
        D1 == hook_disable(D, RangeCmtHooks)
    IN tag_done(write_range_cmt(states, L, D1, FC, fs, st, fn, where,
                                encode(state \cup {key}), wfail),
                D1, where, fn, key, key \notin state, "ginc")

\* a removal that does not look whether the key is there
function_tag_remove_blind(states, L, D, FC, fs, st, ea, key, wfail) ==
    LET fn == get_func(fs, ea)
        where == tag_where(FC, fn, key)
        state == decode(FC[fn][where])
        D1 == hook_disable(D, RangeCmtHooks)
    IN tag_done(write_range_cmt(states, L, D1, FC, fs, st, fn, where,
                                encode(state \ {key}), wfail),
                D1, where, fn, key, TRUE, "gdec")

\* function.tag(func, key, None) for an explicit key and an address ea of a
\* function that is not runtime-linked
function_tag_remove(states, L, D, FC, fs, st, ea, key, wfail) ==
    LET fn == get_func(fs, ea)
        where == tag_where(FC, fn, key)
        state == decode(FC[fn][where])
        D1 == hook_disable(D, RangeCmtHooks)
    IN IF key \notin state
       THEN [states |-> states, D |-> D, C |-> FC, during |-> D, where |-> where,
             raised |-> "MissingFunctionTagError", L |-> L]
       ELSE tag_done(write_range_cmt(states, L, D1, FC, fs, st, fn, where,
                                     encode(state \ {key}), wfail),
                     D1, where, fn, key, TRUE, "gdec")

(* ---- tenth specification: function.tag on a database with functions ---- *)
TagLayouts == {[f \in FuncStart |-> IF f \in XtrnAddr THEN {} ELSE cs] :
                  cs \in UNION {ChunkSets(f) : f \in RangeStart}}

TagInit ==
    /\ State \in {"loaded", "ready"}
    /\ astates = NoStates
    /\ gstates = NoStates
    /\ tstates = NoTypes
    /\ disabled = {}
    /\ cmt = [a \in Addr |-> [r \in BOOLEAN |-> EmptyText]]
    /\ \E t1 \in Text, t2 \in Text :
          fcmt = [f \in FuncStart |-> [r \in BOOLEAN |->
                     IF f \in XtrnAddr THEN EmptyText ELSE IF r THEN t1 ELSE t2]]
    /\ funcs \in TagLayouts
    /\ fattr = [f \in FuncStart |-> {}]
    /\ attr = NoAttrs
    /\ tagcache = exact_ledger(funcs, cmt, fcmt, fattr)
    /\ edit = NoEdit
    /\ ev = NoEvent
    /\ nev = 0
    /\ nfault = 0
    /\ clean = TRUE

\* what a call of function.tag saw and did
Tagged(kind, fn, key, r) ==
    [kind |-> kind, ea |-> fn, key |-> key, raised |-> r.raised, where |-> r.where,
     during |-> r.during, pre |-> tagcache, fpre |-> fcmt, dpre |-> disabled,
     spre |-> gstates]

\* a call of function.tag with result r takes effect
tag_called(kind, ea, key, r) ==
    /\ gstates' = r.states
    /\ tagcache' = r.L
    /\ disabled' = r.D
    /\ fcmt' = r.C
    /\ ev' = Tagged(kind, get_func(funcs, ea), key, r)
    /\ clean' = (clean /\ r.raised = "none")

\* a script calls function.tag(ea, key, value)
tag_set(ea, key, wfail) ==
    /\ edit.kind = "none"
    /\ nev < MaxEvents
    /\ in_contents(funcs, ea)
    /\ wfail => nfault < MaxFaults
    /\ nev' = nev + 1
    /\ nfault' = IF wfail THEN nfault + 1 ELSE nfault
    /\ tag_called("tag_set", ea, key,
                  function_tag_set(gstates, tagcache, disabled, fcmt, funcs, State, ea, key, wfail))
    /\ UNCHANGED <<State, astates, tstates, cmt, funcs, fattr, attr, edit>>

\* a script calls function.tag(ea, key, None)
tag_remove(ea, key, wfail) ==
    /\ edit.kind = "none"
    /\ nev < MaxEvents
    /\ in_contents(funcs, ea)
    /\ wfail => nfault < MaxFaults
    /\ nev' = nev + 1
    /\ nfault' = IF wfail THEN nfault + 1 ELSE nfault
    /\ tag_called("tag_remove", ea, key,
                  function_tag_remove(gstates, tagcache, disabled, fcmt, funcs, State, ea, key,
                                      wfail))
    /\ UNCHANGED <<State, astates, tstates, cmt, funcs, fattr, attr, edit>>

TagNext ==
    \/ \E ea \in Addr, key \in Keys, wfail \in BOOLEAN : tag_set(ea, key, wfail)
    \/ \E ea \in Addr, key \in Keys, wfail \in BOOLEAN : tag_remove(ea, key, wfail)
    \/ \E s \in RangeStart, rpt \in BOOLEAN, new \in Text, deliver \in BOOLEAN :
          changing_range_cmt(s, rpt, new, deliver)
    \/ \E deliver \in BOOLEAN, wfail \in BOOLEAN : range_cmt_changed(deliver, wfail)

TagSpec == TagInit /\ [][TagNext]_vars

(* --- eleventh specification: a report that differs from the promise ---- *)
\* ti_changed when the host stores one type and reports another: the report
\* differs from what changing_ti announced
ti_changed_as(stored, reported) ==
    /\ edit.kind = "ti"
    /\ reported # edit.new
    /\ "ti_changed" \notin disabled
    /\ edit' = NoEdit
    /\ attr' = IF edit.ea \in Addr THEN [attr EXCEPT ![edit.ea].type = stored] ELSE attr
    /\ LET r == typeinfo_changed(tstates, tagcache, disabled, attr', State, edit.ea, reported)
       IN /\ tstates' = r.states
          /\ tagcache' = r.L
          /\ disabled' = r.D
          /\ ev' = [kind |-> "ti_changed_as", ea |-> edit.ea, path |-> r.path,
                    raised |-> r.raised, pre |-> tagcache, p |-> r.p,
                    promised |-> edit.new, reported |-> reported]
          /\ clean' = (clean /\ r.raised = "none")
    /\ UNCHANGED <<State, astates, gstates, cmt, fcmt, funcs, fattr, nev, nfault>>

RefetchNext ==
    \/ \E ea \in TypeAddr, new \in BOOLEAN : changing_ti(ea, new, TRUE)
    \/ ti_changed(TRUE)
    \/ \E stored \in BOOLEAN, reported \in BOOLEAN : ti_changed_as(stored, reported)

RefetchSpec == TypeInit /\ [][RefetchNext]_vars

(* ------- twelfth specification: the cache build, run a second time ------ *)
\* a database that is being loaded, with functions, comments and function
\* comments, and a ledger that is exact for them or empty
RebuildInit ==
    /\ State = "loaded"
    /\ astates = NoStates
    /\ gstates = NoStates
    /\ tstates = NoTypes
    /\ disabled = {}
    /\ \E ac \in [Addr -> AddrCmts] :
          cmt = [a \in Addr |-> [r \in BOOLEAN |-> IF r THEN ac[a][2] ELSE ac[a][1]]]
    /\ \E fc \in AddrCmts :
          fcmt = [f \in FuncStart |-> [r \in BOOLEAN |->
                     IF f \in XtrnAddr THEN EmptyText ELSE IF r THEN fc[1] ELSE fc[2]]]
    /\ funcs \in TagLayouts
    /\ fattr = [f \in FuncStart |-> {}]
    /\ attr = NoAttrs
    /\ tagcache \in {exact_ledger(funcs, cmt, fcmt, fattr), ZeroLedger}
    /\ edit = NoEdit
    /\ ev = NoEvent
    /\ nev = 0
    /\ nfault = 0
    /\ clean = TRUE

\* auto_queue_empty for a database that is still loaded: on_ready builds
first_build == State = "loaded" /\ ev_auto_queue_empty

\* __process_functions once more, right after the build
rebuild ==
    /\ State = "ready"
    /\ ev.kind = "on_ready"
    /\ tagcache' = process_functions(tagcache, funcs, cmt)
    /\ ev' = [NoEvent EXCEPT !.kind = "rebuild", !.pre = tagcache, !.mid = ev.pre]
    /\ UNCHANGED <<State, astates, gstates, tstates, attr, fattr, disabled, cmt, fcmt, funcs,
                   edit, nev, nfault, clean>>

RebuildNext ==
    \/ first_build
    \/ rebuild
    \/ \E f \in FuncStart : \E cs \in ChunkSets(f) : func_added(f, cs)

RebuildSpec == RebuildInit /\ [][RebuildNext]_vars

(* ---------- thirteenth specification: the accounting namespace --------- *)
\* item_color_changed(ea, color); restored tells whether the color is the
\* default one
item_color_changed(L, fs, ea, restored) ==
    IF is_identifier(ea) THEN L
    ELSE LET ctx == IF get_func(fs, ea) # NoFunc THEN get_func(fs, ea) ELSE NoFunc
         IN IF restored THEN ctx_dec(L, ctx, ea, "__color__")
            ELSE ctx_inc(L, ctx, ea, "__color__")

\* function 1 alone, or together with a runtime-linked function
ScopeLayouts == {[f \in FuncStart |-> IF f \in XtrnAddr THEN xs ELSE {<<f, f + 1>>}] :
                    xs \in {{}} \cup UNION {ChunkSets(f) : f \in XtrnAddr}}

ScopeInit ==
    /\ State = "ready"
    /\ astates = NoStates
    /\ gstates = NoStates
    /\ tstates = NoTypes
    /\ disabled = {}
    /\ cmt = [a \in Addr |-> [r \in BOOLEAN |-> EmptyText]]
    /\ \E t \in {EmptyText, <<"k1">>} :
          fcmt = [f \in FuncStart |-> [r \in BOOLEAN |->
                     IF r /\ f \notin XtrnAddr THEN t ELSE EmptyText]]
    /\ funcs \in ScopeLayouts
    /\ fattr = [f \in FuncStart |-> {}]
    /\ attr = NoAttrs
    /\ tagcache = exact_ledger(funcs, cmt, fcmt, fattr)
    /\ edit = NoEdit
    /\ ev = NoEvent
    /\ nev = 0
    /\ nfault = 0
    /\ clean = TRUE

\* what is kept of a handler that ran: the address, the ledger and the layout
\* before it, and the tags of the function itself (del_func)
Scoped(kind, ea, own) == [kind |-> kind, ea |-> ea, pre |-> tagcache, fs |-> funcs, own |-> own]

\* the host has written or deleted the first line of the anterior extra comment
scope_extra_cmt_changed(ea, set) ==
    /\ edit.kind = "none"
    /\ nev < MaxEvents
    /\ ~set => attr[ea].prefix
    /\ nev' = nev + 1
    /\ tagcache' = extra_cmt_changed(tagcache, attr, funcs, ea, E_PREV, set)
    /\ attr' = [attr EXCEPT ![ea].prefix = set]
    /\ ev' = Scoped("extra_cmt_changed", ea, {})
    /\ UNCHANGED <<State, astates, gstates, tstates, disabled, cmt, fcmt, funcs, fattr, edit,
                   nfault, clean>>

\* the host has colored an address or restored its default color
scope_item_color_changed(ea, restored) ==
    /\ edit.kind = "none"
    /\ nev < MaxEvents
    /\ nev' = nev + 1
    /\ tagcache' = item_color_changed(tagcache, funcs, ea, restored)
    /\ ev' = Scoped("item_color_changed", ea, {})
    /\ UNCHANGED <<State, astates, gstates, tstates, attr, disabled, cmt, fcmt, funcs, fattr,
                   edit, nfault, clean>>

\* the host is about to delete function f
scope_deleting_func(f) ==
    /\ edit.kind = "none"
    /\ nev < MaxEvents
    /\ func_exists(funcs, f)
    /\ nev' = nev + 1
    /\ tagcache' = del_func(tagcache, funcs, cmt, fcmt, fattr, f)
    /\ funcs' = [funcs EXCEPT ![f] = {}]
    /\ fcmt' = [fcmt EXCEPT ![f] = [r \in BOOLEAN |-> EmptyText]]
    /\ ev' = Scoped("del_func", f, function_tags(cmt, fcmt, fattr, f))
    /\ UNCHANGED <<State, astates, gstates, tstates, attr, disabled, cmt, fattr, edit,
                   nfault, clean>>

ScopeNext ==
    \/ \E ea \in Addr, rpt \in BOOLEAN, new \in Text : changing_cmt(ea, rpt, new, TRUE)
    \/ cmt_changed(TRUE, FALSE)
    \/ \E ea \in Addr, set \in BOOLEAN : scope_extra_cmt_changed(ea, set)
    \/ \E ea \in Addr, restored \in BOOLEAN : scope_item_color_changed(ea, restored)
    \/ \E f \in FuncStart : scope_deleting_func(f)

ScopeSpec == ScopeInit /\ [][ScopeNext]_vars

(* ===================== the claims, C31 to C39 ========================== *)
\* the lifecycle notification a step delivered, and the one transition each
\* notification may make
Lifecycle == {"ev_init", "ev_newfile", "ev_oldfile", "on_ready"}
Allowed == {<<"ev_init", "None", "init">>, <<"ev_newfile", "init", "loaded">>,
            <<"ev_oldfile", "init", "ready">>, <<"on_ready", "loaded", "ready">>}

\* C31: State changes only by None to init (on_init), init to loaded
\* (on_newfile), init to ready (on_oldfile) and loaded to ready (on_ready); a
\* lifecycle notification in any other state leaves State as it is, and State
\* never leaves ready
C31_Lifecycle ==
    [][/\ State' # State => <<ev'.kind, State, State'>> \in Allowed
       /\ (ev'.kind \in Lifecycle /\ \A t \in Allowed : t[1] = ev'.kind => t[2] # State)
             => State' = State
       /\ State = "ready" => State' = "ready"]_vars

\* the database is ready and a notification of a new file arrived since
C31_Witness == State = "ready" /\ ev.kind = "ev_newfile"

\* what the host alone does to the comments in a step: it stores the
\* announced text when it reports the edit
HostStores ==
    /\ cmt' = IF ev'.kind = "changed" /\ edit.ea \in Addr
              THEN [cmt EXCEPT ![edit.ea][edit.rpt] = edit.new] ELSE cmt
    /\ fcmt' = IF ev'.kind = "fchanged" /\ func_exists(funcs, edit.ea)
               THEN [fcmt EXCEPT ![edit.ea][edit.rpt] = edit.new] ELSE fcmt

\* C32: while State is not ready, a changing or changed notification of any
\* of the three correlators creates no pending state, changes no ledger count,
\* writes no comment, disables and enables no hook, and raises nothing
C32_IgnoredUntilReady ==
    [][(State # "ready" /\ ev'.kind \in Correlated) =>
          /\ ev'.path = "notready"
          /\ astates' = astates /\ gstates' = gstates /\ tstates' = tstates
          /\ tagcache' = tagcache
          /\ disabled' = disabled
          /\ ev'.writes = << >> /\ HostStores
          /\ ev'.raised = "none"]_vars

\* a type change is announced while the new file is still being analysed
C32_Witness ==
    /\ State = "loaded"
    /\ ev.kind = "changing_ti" /\ ev.path = "notready"
    /\ ev.ea \in Addr /\ attr[ev.ea].type
    /\ tagcache = ZeroLedger

\* C33: function.tag(func, key, value) for an explicit key and a function that
\* is not runtime-linked writes the comment with the function-comment hooks
\* disabled, so the globals count of the function start and the key rises by
\* one when neither comment held the key and stays when one did, no other
\* count and no pending state changes, and the hooks are enabled afterwards
\* whether or not the write raised
C33_TagSet ==
    ev.kind = "tag_set" =>
        LET fn == ev.ea
            existed == ev.key \in function_tag(ev.fpre, fn)
        IN /\ RangeCmtHooks \subseteq ev.during
           /\ disabled \cap RangeCmtHooks = {}
           /\ gstates = ev.spre
           /\ ev.raised = "none" =>
                 /\ tagcache = IF existed THEN ev.pre ELSE globals_inc(ev.pre, fn, ev.key)
                 /\ ev.key \in function_tag(fcmt, fn)
           /\ ev.raised # "none" => tagcache = ev.pre /\ fcmt = ev.fpre

\* a key new to a function of a ready database has been set and counted once
C33_Witness ==
    /\ ev.kind = "tag_set" /\ ev.raised = "none" /\ State = "ready"
    /\ ev.key \notin function_tag(ev.fpre, ev.ea)
    /\ tagcache.globals.tags[ev.key] = ev.pre.globals.tags[ev.key] + 1
    /\ tagcache.globals.addrs[ev.ea] = ev.pre.globals.addrs[ev.ea] + 1

\* C34: function.tag(func, key, None) for an explicit key that neither comment
\* of the function holds raises MissingFunctionTagError and leaves the comment
\* text, the ledger and the hook flags as they were; when a comment holds the
\* key it is removed from the comment that was picked and the globals count
\* of the function start and the key is decremented once
C34_TagRemove ==
    ev.kind = "tag_remove" =>
        LET fn == ev.ea
            existed == ev.key \in function_tag(ev.fpre, fn)
            where == tag_where(ev.fpre, fn, ev.key)
        IN /\ ~existed => /\ ev.raised = "MissingFunctionTagError"
                          /\ fcmt = ev.fpre /\ tagcache = ev.pre /\ disabled = ev.dpre
           /\ (existed /\ ev.raised = "none") =>
                 /\ ev.key \notin decode(fcmt[fn][where])
                 /\ fcmt[fn][~where] = ev.fpre[fn][~where]
                 /\ tagcache = globals_dec(ev.pre, fn, ev.key)
                 /\ gstates = ev.spre
           /\ existed => RangeCmtHooks \subseteq ev.during /\ disabled \cap RangeCmtHooks = {}

\* a key held by the non-repeatable comment has been removed and its count
\* has gone down by one
C34_Witness ==
    /\ ev.kind = "tag_remove" /\ ev.raised = "none"
    /\ ~ev.where
    /\ tagcache.globals.tags[ev.key] = ev.pre.globals.tags[ev.key] - 1
    /\ ev.key \notin function_tag(fcmt, ev.ea)

\* a removal of a key the function does not hold has raised
C34_Missing == ev.kind = "tag_remove" /\ ev.raised = "MissingFunctionTagError"

\* a delivered "ti_changed" for the address of its own "changing_ti" whose
\* report differs from what was announced
Unpromised == ev.kind = "ti_changed_as" /\ ev.path = "ok" /\ ev.reported # ev.promised

\* C35: when ti_changed reports the address of changing_ti with other type
\* information than was announced, "__typeinfo__" is incremented exactly when
\* the type stored at the address is non-empty
C35_Refetched ==
    Unpromised =>
        tagcache = IF attr[ev.ea].type THEN globals_inc(ev.pre, ev.ea, TI) ELSE ev.pre

\* the same case with the report taken as it came
C35_AsReported ==
    Unpromised =>
        tagcache = IF ev.reported THEN globals_inc(ev.pre, ev.ea, TI) ELSE ev.pre

\* a report of no type for an address that holds one
C35_Witness == Unpromised /\ attr[ev.ea].type /\ ~ev.reported

\* the pending states of the correlator a notification belongs to
OwnStates(kind) ==
    CASE kind \in {"changing", "changed"} -> astates
      [] kind \in {"fchanging", "fchanged"} -> gstates
      [] kind \in {"changing_ti", "ti_changed"} -> tstates

\* C36: the pending states of the three correlators are independent: a
\* notification of one correlator leaves the pending states of the other two
\* as they were, and its "changed" consumes the state of its own correlator
\* or, when its own correlator holds none for the address, fails to find one
\* whatever the others hold
C36_Independent ==
    [][ev'.kind \in Correlated =>
          /\ ev'.kind \notin {"changing", "changed"} => astates' = astates
          /\ ev'.kind \notin {"fchanging", "fchanged"} => gstates' = gstates
          /\ ev'.kind \notin {"changing_ti", "ti_changed"} => tstates' = tstates
          /\ (ev'.kind \in {"changed", "fchanged", "ti_changed"} /\ State = "ready"
                 /\ ev'.ea \in Addr /\ ev'.path # "nofunc_empty") =>
                 IF OwnStates(ev'.kind)[ev'.ea].status = "none"
                 THEN ev'.raised = "AddressNotFoundError"
                 ELSE ev'.p = OwnStates(ev'.kind)[ev'.ea]]_vars

\* a type change is announced for an address whose comment edit is pending,
\* and both states are held
C36_Witness ==
    /\ ev.kind = "changing_ti" /\ ev.path = "ok"
    /\ astates[ev.ea].status = "awaiting"
    /\ tstates[ev.ea].status = "awaiting"

\* the report of a type change finds no state of its own although the comment
\* correlator holds one for the address
C36_NotFound ==
    /\ ev.kind = "ti_changed" /\ ev.raised = "AddressNotFoundError"
    /\ astates[ev.ea].status = "awaiting"

\* the global entries the relocation found outside every source range
Outside == {p \in ev.pre.globals.addrs : p[1] \notin sources(ev.info)}

\* C37: a relocation leaves every global entry at an address outside all
\* source ranges with its address and count, also when the address lies in a
\* destination range
C37_OutsideKept ==
    Relocated => \A p \in Outside : alt_get(tagcache.globals.addrs, p[1]) = p[2]

\* C37, amended: such an entry keeps its address and count unless a relocated
\* entry arrives at its address; then the address holds the count of the entry
\* that arrived
C37_OutsideKeptUnlessArrival ==
    Relocated =>
        \A p \in Outside :
            /\ p[1] \notin Arrivals => alt_get(tagcache.globals.addrs, p[1]) = p[2]
            /\ (p[1] \in Arrivals /\ ev.fault = NoFault) =>
                  alt_get(tagcache.globals.addrs, p[1]) =
                     alt_get(ev.pre.globals.addrs, moved_from(ev.info, p[1]))

\* an entry inside a destination range was kept because nothing arrived at
\* its address, while another entry was relocated
C37_Witness ==
    /\ Relocated /\ ev.fault = NoFault
    /\ \E p \in Outside : /\ p[1] \in targets(ev.info) /\ p[1] \notin Arrivals
                          /\ alt_get(tagcache.globals.addrs, p[1]) = p[2]
    /\ Arrivals # {}

\* C38: a second run of the cache build on the ledger the first run
\* produced, with no edit in between, changes no count of globals and no count
\* of any function's contents
C38_Idempotent == ev.kind = "rebuild" => tagcache = ev.pre

\* the same for a first run that found an empty ledger
C38_FromEmpty == (ev.kind = "rebuild" /\ ev.mid = ZeroLedger) => tagcache = ev.pre

\* the second run came after a first run that filled an empty ledger
C38_Witness ==
    /\ ev.kind = "rebuild" /\ ev.mid = ZeroLedger
    /\ ev.pre # ZeroLedger /\ tagcache = ev.pre

\* the counts of every namespace but that of owner w are as in ledger L
OnlyIn(L, w) ==
    \A x \in Owners \ {w} :
        IF x = NoFunc THEN tagcache.globals = L.globals ELSE tagcache.contents[x] = L.contents[x]

PerAddress == {"changing", "extra_cmt_changed", "item_color_changed"}

\* del_func has taken every tag of the function itself out of globals, where
\* the function-comment handlers count them, after giving globals the tags of
\* the addresses of the function
OwnTagsLeftGlobals ==
    \A k \in ev.own :
        LET n == Cardinality({a \in func_addrs(ev.fs, ev.ea) : k \in database_tag(cmt, a)})
        IN tagcache.globals.tags[k] = Max(0, ev.pre.globals.tags[k] + n - 1)

\* C39: for every address the plain-comment correlator, the extra-comment
\* handler and the color handler account in the same namespace, the contents
\* of the owning function or globals as the plain-comment correlator picks
\* it, and del_func decrements the tags of the function itself in globals
C39_SameNamespace ==
    /\ ev.kind \in PerAddress => OnlyIn(ev.pre, owner_of(funcs, ev.ea))
    /\ ev.kind = "del_func" => OwnTagsLeftGlobals

\* the same for addresses that are not in a runtime-linked function
C39_UnlessLinked ==
    /\ (ev.kind \in PerAddress /\ get_func(funcs, ev.ea) \notin XtrnAddr) =>
          OnlyIn(ev.pre, owner_of(funcs, ev.ea))
    /\ ev.kind = "del_func" => OwnTagsLeftGlobals

\* a color was counted for an address inside function 1, and a function with
\* a tag of its own was deleted
C39_Witness ==
    \/ /\ ev.kind = "item_color_changed" /\ owner_of(funcs, ev.ea) = 1
       /\ tagcache.contents[1].tags["__color__"] = 1
    \/ /\ ev.kind = "del_func" /\ ev.own # {} /\ ev.pre.globals.tags["k1"] = 1
       /\ tagcache.globals.tags["k1"] = 0

====
